---- MODULE Spec2Model ----
(***************************************************************************)
(* The tool-calling loop of AgentOrchestrator (src/src/agent) with its     *)
(* message store (src/src/llm/models.py, src/src/agent/conversation.py),   *)
(* the local tool catalog (src/src/tools) and the MCP client               *)
(* (src/src/mcp/client.py).                                                *)
(*                                                                         *)
(* Encoding of Python values.                                              *)
(*  - A text is a sequence of fragments, so an f-string is a               *)
(*    concatenation; the empty text is <<"">>.  The Russian message        *)
(*    literals of the source are written in English.                       *)
(*  - A tool name is the sequence of its dot-free segments: "fs.write" is  *)
(*    <<"fs", "write">>, so  "." in name  is  Len(name) > 1  and           *)
(*    name.split(".", 1)  is  <<Head(name), Tail(name)>>.                  *)
(*  - None is NoneSeq where a text, a name or a list is expected and       *)
(*    NoneStr where an identifier string is expected.                      *)
(*  - A JSON / Python value is a record [t |-> type, v |-> payload].       *)
(*  - JSON text on the wire is a sequence of tokens (see JSON-RPC text).   *)
(*                                                                         *)
(* Specifications: Spec (the agent), SpecMCP and SpecWire (the MCP client  *)
(* driven directly), SpecConversation (the message store driven directly)  *)
(* and SpecFunctions (single functions applied to drawn arguments).        *)
(***************************************************************************)
EXTENDS Integers, Sequences, FiniteSets, TLC

\* ---------------------------------------------------------------- bounds
MaxIter == 2
MaxCalls == 2
MaxRequests == 2
MaxToolCalls == 2
MaxResets == 1
MaxOps == 3
MaxTaskCalls == 2
MaxCancels == 1
MaxConnects == 2

\* ---------------------------------------------------------------- values
NoneSeq == <<>>
NoneStr == "None"

StrVal(text) == [t |-> "str", v |-> text]
IntVal(n) == [t |-> "int", v |-> n]
BoolVal(b) == [t |-> "bool", v |-> b]
DictVal(d) == [t |-> "dict", v |-> d]
ListVal(l) == [t |-> "list", v |-> l]
EmptyDict == [k \in {} |-> NoneSeq]
\* Python None as a value; also the value slot of a call that raised.
NoValue == [t |-> "none"]

\* The argument texts a model turn may carry.
GoodArgs == "{\"file_path\": \"a.txt\", \"contents\": \"hi\"}"
EmptyArgs == "{}"
BadArgs == "{\"file_path\": "
ArgTexts == {GoodArgs, EmptyArgs, BadArgs}

\* json.loads on the texts of the model: the parsed value, or JSONDecodeError.
JsonLoads(s) ==
    CASE s = GoodArgs ->
           [ok |-> TRUE,
            value |-> DictVal([file_path |-> StrVal(<<"a.txt">>),
                               contents |-> StrVal(<<"hi">>)])]
      [] s = EmptyArgs -> [ok |-> TRUE, value |-> DictVal(EmptyDict)]
      [] s = "{\"success\": true}" ->
           [ok |-> TRUE, value |-> DictVal([success |-> BoolVal(TRUE)])]
      [] s = "7" -> [ok |-> TRUE, value |-> IntVal(7)]
      [] OTHER -> [ok |-> FALSE, value |-> NoValue]

\* json.dumps(content, ensure_ascii=False, indent=2) on the values of the model.
JsonDumps(val) ==
    CASE val = DictVal([success |-> BoolVal(TRUE)]) -> <<"{\n  \"success\": true\n}">>
      [] val = DictVal(EmptyDict) -> <<"{}">>
      [] val.t = "list" /\ val.v = <<>> -> <<"[]">>
      [] val.t = "list" -> <<"[\n  {\n    \"type\": \"image\"\n  }\n]">>
      [] OTHER -> <<"{...}">>

\* str(content)
PyStr(val) ==
    CASE val.t = "str" -> val.v
      [] val.t = "int" -> <<"7">>
      [] val.t = "bool" -> IF val.v THEN <<"True">> ELSE <<"False">>
      [] OTHER -> <<"None">>

\* ---------------------------------------------------------- message store
SYSTEM_PROMPT == <<"You are an AI programmer agent.">>
LIMIT_MESSAGE == <<"Maximum iteration limit reached. Try to simplify the request.">>

Message(role, content, tool_calls, tool_call_id, name) ==
    [role |-> role, content |-> content, tool_calls |-> tool_calls,
     tool_call_id |-> tool_call_id, name |-> name]

\* add_message putting the message first.
add_message_Prepends(msgs, message) == <<message>> \o msgs

add_message(msgs, message) == Append(msgs, message)

add_user_message(msgs, content) ==
    add_message(msgs, Message("user", content, NoneSeq, NoneStr, NoneSeq))

add_assistant_message(msgs, content, tool_calls) ==
    LET tool_calls_list ==
          IF tool_calls # <<>>
          THEN [i \in 1..Len(tool_calls) |->
                  [id |-> tool_calls[i].id, type |-> "function",
                   function |-> [name |-> tool_calls[i].function.name,
                                 arguments |-> tool_calls[i].function.arguments]]]
          ELSE NoneSeq
    IN add_message(msgs, Message("assistant", content, tool_calls_list, NoneStr, NoneSeq))

add_tool_message(msgs, tool_call_id, name, content) ==
    LET content_str == IF content.t \in {"dict", "list"} THEN JsonDumps(content)
                       ELSE PyStr(content)
    IN add_message(msgs, Message("tool", content_str, NoneSeq, tool_call_id, name))

\* Python truthiness of the optional fields of a Message.
TruthyText(x) == x # NoneSeq /\ x # <<"">>
TruthyStr(x) == x # NoneStr /\ x # ""

\* The projection of a message with its tool calls left out.
MsgDictNoToolCalls(msg) ==
    ("role" :> msg.role)
    @@ (IF TruthyText(msg.content) THEN ("content" :> msg.content) ELSE <<>>)
    @@ (IF TruthyStr(msg.tool_call_id) THEN ("tool_call_id" :> msg.tool_call_id) ELSE <<>>)
    @@ (IF TruthyText(msg.name) THEN ("name" :> msg.name) ELSE <<>>)

\* ConversationHistory.get_messages_for_llm: one record per message, absent
\* (falsy) optional fields omitted.
MsgDict(msg) ==
    ("role" :> msg.role)
    @@ (IF TruthyText(msg.content) THEN ("content" :> msg.content) ELSE <<>>)
    @@ (IF msg.tool_calls # <<>> THEN ("tool_calls" :> msg.tool_calls) ELSE <<>>)
    @@ (IF TruthyStr(msg.tool_call_id) THEN ("tool_call_id" :> msg.tool_call_id) ELSE <<>>)
    @@ (IF TruthyText(msg.name) THEN ("name" :> msg.name) ELSE <<>>)

get_messages_for_llm(msgs) == [i \in 1..Len(msgs) |-> MsgDict(msgs[i])]

get_message_count(msgs) == Len(msgs)

\* ------------------------------------------------------------ tool catalog
\* The catalog built by init_agent, reduced to one tool with a declared schema.
WriteSchema ==
    [required |-> {"file_path", "contents"},
     properties |-> [file_path |-> "string", contents |-> "string"]]

tools == [write |-> [name |-> <<"write">>, parameters_schema |-> WriteSchema]]

\* ToolRegistry.get_tool: the tool, or None (FALSE here: only its truth is used).
get_tool(name) == Len(name) = 1 /\ name[1] \in DOMAIN tools

\* register keeping the tool already registered under the name.
register_KeepsFirst(registry, tool) ==
    [raised |-> FALSE,
     tools |-> IF tool.name[1] \in DOMAIN registry THEN registry
               ELSE (tool.name[1] :> tool) @@ registry]

\* ToolRegistry.register on the dict self.tools: a warning is logged when the
\* name is taken, and the entry is written in either case.
register(registry, tool) ==
    [raised |-> FALSE, tools |-> (tool.name[1] :> tool) @@ registry]

\* ToolRegistry.get_tool on the dict self.tools: the tool, or None.
NoTool == [name |-> NoneSeq]
GetTool(registry, name) ==
    IF Len(name) = 1 /\ name[1] \in DOMAIN registry THEN registry[name[1]] ELSE NoTool

\* BaseTool._check_type (bool is a subclass of int in Python).
_check_type(value, expected_type) ==
    CASE expected_type = "string" -> value.t = "str"
      [] expected_type = "integer" -> value.t \in {"int", "bool"}
      [] expected_type = "number" -> value.t \in {"int", "bool", "float"}
      [] expected_type = "boolean" -> value.t = "bool"
      [] expected_type = "array" -> value.t = "list"
      [] expected_type = "object" -> value.t = "dict"
      [] OTHER -> TRUE

\* BaseTool.validate_arguments
validate_arguments(schema, arguments) ==
    /\ \A param \in schema.required : param \in DOMAIN arguments.v
    /\ \A param \in DOMAIN arguments.v :
          param \in DOMAIN schema.properties
             => _check_type(arguments.v[param], schema.properties[param])

\* What a local tool's execute may do: return a value or raise.
LocalExecOutcomes ==
    { [raised |-> FALSE, value |-> StrVal(<<"written">>), error |-> <<>>],
      [raised |-> FALSE, value |-> DictVal([success |-> BoolVal(TRUE)]), error |-> <<>>],
      [raised |-> TRUE, value |-> NoValue, error |-> <<"Permission denied">>] }

\* call_tool running execute without validating the arguments first.
registry_call_tool_NoValidate(name, arguments) ==
    IF ~get_tool(name)
    THEN { [raised |-> TRUE, value |-> NoValue, executed |-> 0,
             error |-> <<"Tool '", name[1], "' not found in the registry">>] }
    ELSE { o @@ [executed |-> 1] : o \in LocalExecOutcomes }

\* ToolRegistry.call_tool: unknown name and rejected arguments raise ValueError;
\* an exception of execute is logged and re-raised.  executed counts the runs
\* of tool.execute.
registry_call_tool(name, arguments) ==
    IF ~get_tool(name)
    THEN { [raised |-> TRUE, value |-> NoValue, executed |-> 0,
             error |-> <<"Tool '", name[1], "' not found in the registry">>] }
    ELSE IF ~validate_arguments(tools[name[1]].parameters_schema, arguments)
    THEN { [raised |-> TRUE, value |-> NoValue, executed |-> 0,
             error |-> <<"Invalid arguments for tool '", name[1], "'">>] }
    ELSE { o @@ [executed |-> 1] : o \in LocalExecOutcomes }

\* -------------------------------------------------------------- MCP client
ServerNames == {"fs", "db"}

\* The configurations handed to connect_server.  "missing-bin" is a command
\* the operating system cannot spawn.
Configs ==
    { [transport |-> "stdio", command |-> "server-bin"],
      [command |-> "server-bin"],
      [transport |-> "stdio", command |-> "missing-bin"],
      [transport |-> "http", url |-> "http://localhost/mcp"],
      [transport |-> "http"],
      [transport |-> "websocket", url |-> "ws://localhost/mcp"] }
\* A configuration of a stdio server that can be spawned.
StdioConfig == [transport |-> "stdio", command |-> "server-bin"]

\* What a server may answer to one request: a result envelope, an error
\* envelope, or nothing usable (closed pipe, undecodable line, HTTP error
\* status, timeout, network error), which makes _send_request raise.
ResultReply(result) == [kind |-> "result", result |-> result]
ErrorReply(message) == [kind |-> "error", message |-> message]
FailureReply == [kind |-> "failure"]
\* One line (stdio) or body (http) that is not JSON.
MalformedReply == [kind |-> "malformed"]
\* An id no request of the client carries: _next_id counts from 1.
ForeignId == 0
\* A well-formed result envelope whose id is not the id of the request.
ForeignReply(result) == [kind |-> "result", result |-> result, id |-> ForeignId]
\* A result envelope the server writes twice.
DoubledReply(result) == [kind |-> "result", result |-> result, copies |-> 2]
\* A result envelope in the body of an HTTP response with the given status
\* (a reply without a status is a 200).
StatusReply(status, result) == [kind |-> "result", result |-> result, status |-> status]
HttpStatus(reply) == IF "status" \in DOMAIN reply THEN reply.status ELSE 200

RemoteWrite == [name |-> <<"write">>, description |-> "write a file"]
InitializeReplies ==
    { ResultReply([protocolVersion |-> "2026-01-04"]),
      ErrorReply(<<"unsupported protocol version">>),
      FailureReply }
ToolsListReplies ==
    { ResultReply([tools |-> <<RemoteWrite>>]),
      ErrorReply(<<"method not found">>),
      FailureReply }
TextContent == <<[type |-> "text", text |-> <<"{\"success\": true}">>]>>
ToolsCallReplies ==
    { ResultReply([content |-> TextContent]),
      ErrorReply(<<"remote tool failed">>),
      FailureReply }

\* The client's fields, threaded through the methods below:
\*   servers            self.servers, name -> entry
\*   request_id_counter self.request_id_counter
\*   sent               every request written to a pipe or posted, in order
\*   live               the transport resources (child processes, HTTP
\*                      sessions) created and not yet released
\*   next_handle        the identity of the next resource created
\*   exited             the child processes that have exited on their own
\* An outcome is the client after the call and either the value returned or
\* the text of the exception raised.
Raise(st, e) == [st |-> st, raised |-> TRUE, value |-> NoValue, error |-> e]
Return(st, val) == [st |-> st, raised |-> FALSE, value |-> val, error |-> <<>>]

\* _next_id handing out the counter without advancing it.
_next_id_Reuses(st) == st

\* MCPClient._next_id
_next_id(st) == [st EXCEPT !.request_id_counter = @ + 1]

\* MCPClient._connect_stdio: spawn the child, then register the entry.
_connect_stdio(st, name, config) ==
    IF "command" \notin DOMAIN config
    THEN Raise(st, <<"KeyError: 'command'">>)
    ELSE IF config.command = "missing-bin"
    THEN Raise(st, <<"FileNotFoundError: ", config.command>>)
    ELSE Return([st EXCEPT
                   !.servers = (name :> [transport |-> "stdio", tools |-> <<>>,
                                         handle |-> st.next_handle,
                                         pipe |-> <<>>]) @@ @,
                   !.live = @ \cup {st.next_handle},
                   !.next_handle = @ + 1], NoValue)

\* _connect_http registering the entry before it looks for the URL.
_connect_http_RegisterFirst(st, name, config) ==
    LET st1 == [st EXCEPT
                  !.servers = (name :> [transport |-> "http", tools |-> <<>>,
                                        handle |-> st.next_handle,
                                        url |-> IF "url" \in DOMAIN config
                                                THEN config.url ELSE ""]) @@ @,
                  !.live = @ \cup {st.next_handle},
                  !.next_handle = @ + 1]
    IN IF "url" \notin DOMAIN config \/ config.url = ""
       THEN Raise(st1, <<"URL is required for the HTTP transport of server ", name>>)
       ELSE Return(st1, NoValue)

\* MCPClient._connect_http: require a URL, open the session, register the entry.
_connect_http(st, name, config) ==
    IF "url" \notin DOMAIN config \/ config.url = ""
    THEN Raise(st, <<"URL is required for the HTTP transport of server ", name>>)
    ELSE Return([st EXCEPT
                   !.servers = (name :> [transport |-> "http", tools |-> <<>>,
                                         handle |-> st.next_handle,
                                         url |-> config.url]) @@ @,
                   !.live = @ \cup {st.next_handle},
                   !.next_handle = @ + 1], NoValue)

\* The record kept of a request that was sent: where it went, its id and
\* method, the lines or bodies the server wrote for it (kind and id of each),
\* and what the client read in answer: the kind of the line or body and the
\* id it carried ("none" and -1 when nothing was read, "malformed" and -1 when
\* it did not decode).
Sent(st, name, request, written, answer, answer_id) ==
    [st EXCEPT !.sent =
        Append(@, [server |-> name,
                   handle |-> st.servers[name].handle,
                   transport |-> st.servers[name].transport,
                   id |-> request.id, method |-> request.method,
                   tool |-> IF "params" \in DOMAIN request
                            THEN request.params.name ELSE NoneSeq,
                   wrote |-> [i \in DOMAIN written |->
                                 [kind |-> written[i].kind, id |-> written[i].id]],
                   answer |-> answer, answer_id |-> answer_id])]

\* What the server writes for a request: its reply, carrying the request's id
\* unless the reply has an id of its own (a line that is not JSON carries
\* none: -1), as many times as the reply says.
Written(request, reply) ==
    IF reply.kind = "failure" THEN <<>>
    ELSE [i \in 1..(IF "copies" \in DOMAIN reply THEN reply.copies ELSE 1) |->
             [f \in DOMAIN reply \ {"copies", "status"} |-> reply[f]]
                 @@ [id |-> IF reply.kind = "malformed" THEN -1 ELSE request.id]]

\* readline leaving on the pipe a line that does not decode.
_send_stdio_request_KeepsBadLine(st, name, request, reply) ==
    LET server == st.servers[name]
        written == IF server.handle \in st.exited THEN <<>>
                   ELSE Written(request, reply)
        stdout == server.pipe \o written
    IN IF stdout = <<>>
       THEN Raise(Sent(st, name, request, written, "none", -1),
                  <<"Server closed the connection">>)
       ELSE IF Head(stdout).kind = "malformed"
       THEN Raise(Sent([st EXCEPT !.servers[name].pipe = stdout],
                       name, request, written, "malformed", -1),
                  <<"JSONDecodeError: Expecting value">>)
       ELSE Return(Sent([st EXCEPT !.servers[name].pipe = Tail(stdout)],
                        name, request, written, Head(stdout).kind, Head(stdout).id),
                   Head(stdout))

\* MCPClient._send_stdio_request: the request is written to the child's stdin,
\* the child writes to its stdout, and the next full line of the pipe is read
\* and decoded.  An empty read is a closed pipe; a child that has exited
\* writes nothing.
_send_stdio_request(st, name, request, reply) ==
    LET server == st.servers[name]
        written == IF server.handle \in st.exited THEN <<>>
                   ELSE Written(request, reply)
        stdout == server.pipe \o written
    IN IF stdout = <<>>
       THEN Raise(Sent(st, name, request, written, "none", -1),
                  <<"Server closed the connection">>)
       ELSE LET line == Head(stdout)
                st1 == [st EXCEPT !.servers[name].pipe = Tail(stdout)]
            IN IF line.kind = "malformed"
               THEN Raise(Sent(st1, name, request, written, "malformed", -1),
                          <<"JSONDecodeError: Expecting value">>)
               ELSE Return(Sent(st1, name, request, written, line.kind, line.id), line)

\* _send_http_request deleting the entry of a connection whose request failed.
_send_http_request_DropsOnFailure(st, name, request, reply) ==
    LET Drop(s) == [s EXCEPT !.servers = [n \in DOMAIN @ \ {name} |-> @[n]]]
    IN IF reply.kind = "failure"
       THEN Raise(Drop(Sent(st, name, request, <<>>, "none", -1)),
                  <<"Network error while sending the HTTP request">>)
       ELSE IF HttpStatus(reply) >= 400
       THEN Raise(Drop(Sent(st, name, request, <<>>, "none", -1)),
                  <<"HTTP error ", ToString(HttpStatus(reply)), " from the MCP server">>)
       ELSE LET body == Written(request, reply)[1]
            IN IF body.kind = "malformed"
               THEN Raise(Sent(st, name, request, <<body>>, "malformed", -1),
                          <<"JSONDecodeError: Expecting value">>)
               ELSE Return(Sent(st, name, request, <<body>>, body.kind, body.id), body)

\* MCPClient._send_http_request: the request is posted; a timeout and a
\* network error raise (a reply of kind "failure"), a status of 400 or more
\* raises with the status in the text, and the body of any other response is
\* decoded.
_send_http_request(st, name, request, reply) ==
    IF reply.kind = "failure"
    THEN Raise(Sent(st, name, request, <<>>, "none", -1),
               <<"Network error while sending the HTTP request">>)
    ELSE IF HttpStatus(reply) >= 400
    THEN Raise(Sent(st, name, request, <<>>, "none", -1),
               <<"HTTP error ", ToString(HttpStatus(reply)), " from the MCP server">>)
    ELSE LET body == Written(request, reply)[1]
         IN IF body.kind = "malformed"
            THEN Raise(Sent(st, name, request, <<body>>, "malformed", -1),
                       <<"JSONDecodeError: Expecting value">>)
            ELSE Return(Sent(st, name, request, <<body>>, body.kind, body.id), body)

\* MCPClient._send_request
_send_request(st, name, request, reply) ==
    IF name \notin DOMAIN st.servers
    THEN Raise(st, <<"Server ", name, " is not connected">>)
    ELSE IF st.servers[name].transport = "stdio"
    THEN _send_stdio_request(st, name, request, reply)
    ELSE _send_http_request(st, name, request, reply)

\* _load_tools raising on an error envelope, as _initialize does.
_load_tools_Raises(st, name, list_reply) ==
    LET st1 == _next_id(st)
        request == [id |-> st1.request_id_counter, method |-> "tools/list"]
        r == _send_request(st1, name, request, list_reply)
    IN IF r.raised THEN r
       ELSE IF r.value.kind = "error"
       THEN Raise(r.st, <<"Tool loading error ", name, ": ">> \o r.value.message)
       ELSE Return([r.st EXCEPT !.servers[name].tools = r.value.result.tools], NoValue)

\* MCPClient._load_tools: an error envelope is logged and leaves tools empty.
_load_tools(st, name, list_reply) ==
    LET st1 == _next_id(st)
        request == [id |-> st1.request_id_counter, method |-> "tools/list"]
        r == _send_request(st1, name, request, list_reply)
    IN IF r.raised THEN r
       ELSE IF r.value.kind = "error" THEN Return(r.st, NoValue)
       ELSE Return([r.st EXCEPT !.servers[name].tools = r.value.result.tools], NoValue)

\* MCPClient._initialize: an error envelope raises RuntimeError.
_initialize(st, name, init_reply, list_reply) ==
    LET st1 == _next_id(st)
        request == [id |-> st1.request_id_counter, method |-> "initialize"]
        r == _send_request(st1, name, request, init_reply)
    IN IF r.raised THEN r
       ELSE IF r.value.kind = "error"
       THEN Raise(r.st, <<"MCP server initialization error ", name, ": ">> \o r.value.message)
       ELSE _load_tools(r.st, name, list_reply)

\* MCPClient.connect_server
connect_server(st, name, config, init_reply, list_reply) ==
    LET transport == IF "transport" \in DOMAIN config THEN config.transport ELSE "stdio"
        c == IF transport = "stdio" THEN _connect_stdio(st, name, config)
             ELSE IF transport = "http" THEN _connect_http(st, name, config)
             ELSE Raise(st, <<"Unsupported transport: ", transport>>)
    IN IF c.raised THEN c ELSE _initialize(c.st, name, init_reply, list_reply)

\* The conversion keeping the remote tool's own name.
_convert_mcp_tool_to_openai_Bare(mcp_tool, server_name) ==
    [type |-> "function",
     function |-> [name |-> mcp_tool.name,
                   description |-> mcp_tool.description]]

\* The dot-free segments of a server name: a name is a key of mcpServers and
\* may hold dots.
Segments(server_name) ==
    IF server_name = "my.server" THEN <<"my", "server">> ELSE <<server_name>>

\* MCPClient._convert_mcp_tool_to_openai: f"{server_name}.{mcp_tool['name']}"
_convert_mcp_tool_to_openai(mcp_tool, server_name) ==
    [type |-> "function",
     function |-> [name |-> Segments(server_name) \o mcp_tool.name,
                   description |-> mcp_tool.description]]

\* MCPClient.list_tools(server_name): the converted tools of one server, or of
\* all servers when server_name is None.
list_tools(st, server_name) ==
    LET names == IF server_name # NoneStr THEN {server_name} ELSE DOMAIN st.servers
    IN UNION { { _convert_mcp_tool_to_openai(st.servers[n].tools[i], n) :
                   i \in DOMAIN st.servers[n].tools } :
               n \in names \cap DOMAIN st.servers }

\* "\n".join(texts).strip(), on texts whose fragments carry no blank of their
\* own at either end.
Blank(fragment) == fragment \in {"", " ", "\n"}
RECURSIVE JoinTexts(_)
JoinTexts(texts) ==
    IF texts = <<>> THEN <<"">>
    ELSE IF Len(texts) = 1 THEN Head(texts)
    ELSE Head(texts) \o <<"\n">> \o JoinTexts(Tail(texts))
RECURSIVE LStrip(_)
LStrip(text) ==
    IF text = <<>> THEN <<>>
    ELSE IF Blank(Head(text)) THEN LStrip(Tail(text)) ELSE text
RECURSIVE RStrip(_)
RStrip(text) ==
    IF text = <<>> THEN <<>>
    ELSE IF Blank(text[Len(text)]) THEN RStrip(SubSeq(text, 1, Len(text) - 1)) ELSE text
Strip(text) == LET s == RStrip(LStrip(text)) IN IF s = <<>> THEN <<"">> ELSE s

\* The value call_tool returns for a result envelope (client.py lines 309-338).
FormatResult(result) ==
    LET result_content == IF "content" \in DOMAIN result THEN result.content ELSE <<>>
        text_items == SelectSeq(result_content, LAMBDA item : item.type = "text")
        texts == [i \in 1..Len(text_items) |->
                    IF "text" \in DOMAIN text_items[i] THEN text_items[i].text ELSE <<"">>]
        text_content == Strip(JoinTexts(texts))
        parsed == IF Len(text_content) = 1 THEN JsonLoads(text_content[1])
                  ELSE [ok |-> FALSE, value |-> NoValue]
    IN IF result_content = <<>> THEN DictVal(result)
       ELSE IF texts = <<>> THEN ListVal(result_content)
       ELSE IF text_content = <<"">> THEN ListVal(result_content)
       ELSE IF parsed.ok THEN parsed.value
       ELSE StrVal(text_content)

\* call_tool handing an error envelope back as if it were the tool's result.
mcp_call_tool_ErrorAsResult(st, tool_name, arguments, reply) ==
    IF Len(tool_name) < 2
    THEN Raise(st, <<"Bad tool name format, expected server.tool">>)
    ELSE LET server_name == Head(tool_name)
             actual_tool_name == Tail(tool_name)
         IN IF server_name \notin DOMAIN st.servers
            THEN Raise(st, <<"Server ", server_name, " is not connected">>)
            ELSE LET st1 == _next_id(st)
                     request == [id |-> st1.request_id_counter, method |-> "tools/call",
                                 params |-> [name |-> actual_tool_name,
                                             arguments |-> arguments]]
                     r == _send_request(st1, server_name, request, reply)
                 IN IF r.raised THEN r
                    ELSE IF r.value.kind = "error"
                    THEN Return(r.st, StrVal(r.value.message))
                    ELSE Return(r.st, FormatResult(r.value.result))

\* call_tool building its request, and so taking an id, before it looks at
\* the name.
mcp_call_tool_IdFirst(st, tool_name, arguments, reply) ==
    LET st1 == _next_id(st)
    IN IF Len(tool_name) < 2
       THEN Raise(st1, <<"Bad tool name format, expected server.tool">>)
       ELSE LET server_name == Head(tool_name)
                actual_tool_name == Tail(tool_name)
                request == [id |-> st1.request_id_counter, method |-> "tools/call",
                            params |-> [name |-> actual_tool_name,
                                        arguments |-> arguments]]
                r == _send_request(st1, server_name, request, reply)
            IN IF r.raised THEN r
               ELSE IF r.value.kind = "error"
               THEN Raise(r.st, <<"Tool call error: ">> \o r.value.message)
               ELSE Return(r.st, FormatResult(r.value.result))

\* MCPClient.call_tool
mcp_call_tool(st, tool_name, arguments, reply) ==
    IF Len(tool_name) < 2
    THEN Raise(st, <<"Bad tool name format, expected server.tool">>)
    ELSE LET server_name == Head(tool_name)
             actual_tool_name == Tail(tool_name)
         IN IF server_name \notin DOMAIN st.servers
            THEN Raise(st, <<"Server ", server_name, " is not connected">>)
            ELSE LET st1 == _next_id(st)
                     request == [id |-> st1.request_id_counter, method |-> "tools/call",
                                 params |-> [name |-> actual_tool_name,
                                             arguments |-> arguments]]
                     r == _send_request(st1, server_name, request, reply)
                 IN IF r.raised THEN r
                    ELSE IF r.value.kind = "error"
                    THEN Raise(r.st, <<"Tool call error: ">> \o r.value.message)
                    ELSE Return(r.st, FormatResult(r.value.result))

\* disconnect_server without its first test: del self.servers[name] on a name
\* that is not there.
disconnect_server_NoGuard(st, name) ==
    IF name \notin DOMAIN st.servers THEN Raise(st, <<"KeyError: ", name>>)
    ELSE IF st.servers[name].transport = "stdio" /\ st.servers[name].handle \in st.exited
    THEN Raise(st, <<"ProcessLookupError">>)
    ELSE Return([st EXCEPT
                   !.live = @ \ {st.servers[name].handle},
                   !.servers = [n \in DOMAIN @ \ {name} |-> @[n]]], NoValue)

\* MCPClient.disconnect_server: release the transport resource, drop the entry.
\* terminate() on a child that has exited raises ProcessLookupError, before
\* the entry is deleted; a failure of session.close() is caught and logged.
disconnect_server(st, name) ==
    IF name \notin DOMAIN st.servers THEN Return(st, NoValue)
    ELSE IF st.servers[name].transport = "stdio" /\ st.servers[name].handle \in st.exited
    THEN Raise(st, <<"ProcessLookupError">>)
    ELSE Return([st EXCEPT
                   !.live = @ \ {st.servers[name].handle},
                   !.servers = [n \in DOMAIN @ \ {name} |-> @[n]]], NoValue)

\* The loop of disconnect_all without its try/except: the first failure ends
\* the loop and reaches the caller.
RECURSIVE DisconnectEach_NoExcept(_, _, _, _)
DisconnectEach_NoExcept(st, names, attempted, failed) ==
    IF names = {}
    THEN [st |-> st, attempted |-> attempted, failed |-> failed, raised |-> FALSE]
    ELSE LET name == CHOOSE n \in names : TRUE
             r == disconnect_server(st, name)
         IN IF r.raised
            THEN [st |-> r.st, attempted |-> attempted \cup {name},
                  failed |-> failed \cup {name}, raised |-> TRUE]
            ELSE DisconnectEach_NoExcept(r.st, names \ {name},
                                         attempted \cup {name}, failed)

\* The loop of disconnect_all (lines 366-370) over the names still to visit:
\* disconnect_server on each, an exception logged and dropped.  The outcome
\* carries the names attempted and those whose disconnect raised.
RECURSIVE DisconnectEach(_, _, _, _)
DisconnectEach(st, names, attempted, failed) ==
    IF names = {}
    THEN [st |-> st, attempted |-> attempted, failed |-> failed, raised |-> FALSE]
    ELSE LET name == CHOOSE n \in names : TRUE
             r == disconnect_server(st, name)
         IN DisconnectEach(r.st, names \ {name}, attempted \cup {name},
                           IF r.raised THEN failed \cup {name} ELSE failed)

\* MCPClient.disconnect_all, over list(self.servers.keys()).
disconnect_all(st) == DisconnectEach(st, DOMAIN st.servers, {}, {})

\* --------------------------------------------------------- JSON-RPC text
\* JSON text is a sequence of tokens: the punctuation json.dumps writes
\* ("{", "}", "[", "]", ": ", ", ", the quote), the literals, the digits of a
\* number, and inside a string one token per fragment of the string.  A
\* fragment is one special character (newline, quote, backslash) or a run of
\* ordinary characters.

\* json.dumps leaving the characters of a string as they are.
EscapeRaw(fragment) == fragment

\* json.dumps on one fragment of a string: control characters, the quote and
\* the backslash are escaped.
Escape(fragment) ==
    CASE fragment = "\n" -> "\\n"
      [] fragment = "\"" -> "\\\""
      [] fragment = "\\" -> "\\\\"
      [] OTHER -> fragment

\* json.loads on one token of a string.
Unescape(token) ==
    CASE token = "\\n" -> "\n"
      [] token = "\\\"" -> "\""
      [] token = "\\\\" -> "\\"
      [] OTHER -> token

\* The order in which the keys of a dict are written (insertion order).
KeyOrder == <<"jsonrpc", "id", "method", "params", "name", "arguments",
              "file_path", "contents", "cursor", "limit", "tags">>
Keys(d) == SelectSeq(KeyOrder, LAMBDA k : k \in DOMAIN d)

DumpsString(text) == <<"\"">> \o [i \in 1..Len(text) |-> Escape(text[i])] \o <<"\"">>

RECURSIVE JoinItems(_)
JoinItems(items) ==
    IF items = <<>> THEN <<>>
    ELSE IF Len(items) = 1 THEN Head(items)
    ELSE Head(items) \o <<", ">> \o JoinItems(Tail(items))

\* json.dumps(value, ensure_ascii=False)
RECURSIVE Dumps(_)
Dumps(val) ==
    CASE val.t = "str" -> DumpsString(val.v)
      [] val.t = "int" -> <<ToString(val.v)>>
      [] val.t = "bool" -> <<IF val.v THEN "true" ELSE "false">>
      [] val.t = "none" -> <<"null">>
      [] val.t = "list" ->
           <<"[">> \o JoinItems([i \in 1..Len(val.v) |-> Dumps(val.v[i])]) \o <<"]">>
      [] val.t = "dict" ->
           LET keys == Keys(val.v)
           IN <<"{">>
              \o JoinItems([i \in 1..Len(keys) |->
                              DumpsString(<<keys[i]>>) \o <<": ">> \o Dumps(val.v[keys[i]])])
              \o <<"}">>

\* The numbers whose digits the texts of the model hold.
Numbers == 0..9
IsNumber(token) == \E n \in Numbers : ToString(n) = token
NumberOf(token) == CHOOSE n \in Numbers : ToString(n) = token

ParseFail == [ok |-> FALSE, value |-> NoValue, pos |-> 0]
ParseOk(val, pos) == [ok |-> TRUE, value |-> val, pos |-> pos]

\* json.loads from the token after an opening quote: the string up to the
\* closing quote.  A raw newline inside a string is not JSON.
RECURSIVE ParseString(_, _, _)
ParseString(toks, pos, acc) ==
    IF pos > Len(toks) THEN ParseFail
    ELSE IF toks[pos] = "\"" THEN ParseOk(StrVal(acc), pos + 1)
    ELSE IF toks[pos] \in {"\n", "\\"} THEN ParseFail
    ELSE ParseString(toks, pos + 1, Append(acc, Unescape(toks[pos])))

\* json.loads from position pos: one value and the position after it.
RECURSIVE ParseValue(_, _)
RECURSIVE ParseMembers(_, _, _)
RECURSIVE ParseElements(_, _, _)
ParseValue(toks, pos) ==
    IF pos > Len(toks) THEN ParseFail
    ELSE LET t == toks[pos]
         IN CASE t = "\"" -> ParseString(toks, pos + 1, <<>>)
              [] t = "null" -> ParseOk(NoValue, pos + 1)
              [] t = "true" -> ParseOk(BoolVal(TRUE), pos + 1)
              [] t = "false" -> ParseOk(BoolVal(FALSE), pos + 1)
              [] t = "{" ->
                   IF pos + 1 <= Len(toks) /\ toks[pos + 1] = "}"
                   THEN ParseOk(DictVal(EmptyDict), pos + 2)
                   ELSE ParseMembers(toks, pos + 1, EmptyDict)
              [] t = "[" ->
                   IF pos + 1 <= Len(toks) /\ toks[pos + 1] = "]"
                   THEN ParseOk(ListVal(<<>>), pos + 2)
                   ELSE ParseElements(toks, pos + 1, <<>>)
              [] OTHER -> IF IsNumber(t) THEN ParseOk(IntVal(NumberOf(t)), pos + 1)
                          ELSE ParseFail

ParseMembers(toks, pos, acc) ==
    IF pos > Len(toks) \/ toks[pos] # "\"" THEN ParseFail
    ELSE LET k == ParseString(toks, pos + 1, <<>>)
         IN IF ~k.ok \/ Len(k.value.v) # 1 \/ k.pos > Len(toks) THEN ParseFail
            ELSE IF toks[k.pos] # ": " THEN ParseFail
            ELSE LET v == ParseValue(toks, k.pos + 1)
                 IN IF ~v.ok \/ v.pos > Len(toks) THEN ParseFail
                    ELSE LET acc1 == (k.value.v[1] :> v.value) @@ acc
                         IN IF toks[v.pos] = "}" THEN ParseOk(DictVal(acc1), v.pos + 1)
                            ELSE IF toks[v.pos] = ", "
                            THEN ParseMembers(toks, v.pos + 1, acc1)
                            ELSE ParseFail

ParseElements(toks, pos, acc) ==
    LET v == ParseValue(toks, pos)
    IN IF ~v.ok \/ v.pos > Len(toks) THEN ParseFail
       ELSE IF toks[v.pos] = "]" THEN ParseOk(ListVal(Append(acc, v.value)), v.pos + 1)
       ELSE IF toks[v.pos] = ", " THEN ParseElements(toks, v.pos + 1, Append(acc, v.value))
       ELSE ParseFail

\* json.loads(text): one value, then nothing but whitespace.
Loads(text) ==
    LET r == ParseValue(text, 1)
    IN IF r.ok /\ \A i \in r.pos..Len(text) : text[i] \in {"\n", " "}
       THEN [ok |-> TRUE, value |-> r.value]
       ELSE [ok |-> FALSE, value |-> NoValue]

\* MCPRequest(id=..., method=..., params=...); params None is NoValue.
MCPRequest(id, method, params) ==
    [jsonrpc |-> StrVal(<<"2.0">>), id |-> id, method |-> StrVal(method),
     params |-> params]

\* request.dict(exclude_none=True): the fields that are not None.
RequestDict(request) ==
    DictVal([f \in {g \in DOMAIN request : request[g] # NoValue} |-> request[f]])

\* serialize_request
serialize_request(request) == Dumps(RequestDict(request)) \o <<"\n">>

\* ------------------------------------------------------------------ state
VARIABLES
    \* AgentOrchestrator
    pc,              \* where the one task driving the orchestrator stands
    mcp_client,      \* self.mcp_client is not None
    max_iterations,  \* self.max_iterations
    messages,        \* self.conversation.history.messages
    iteration,       \* process_user_request: iteration
    response,        \* process_user_request: response
    tool_results,    \* process_user_request: tool_results
    idx,             \* position of the for loop over tool_calls
    executing,       \* the tool calls whose _execute_tool_call has begun and not ended
    returned,        \* the value the last process_user_request returned
    \* MCPClient
    servers, request_id_counter, sent, live, next_handle, exited,
    \* history of the run, read by the properties only
    requests,        \* process_user_request invocations so far
    resets,          \* reset_conversation calls so far
    tool_budget,     \* tool calls returned by the model so far
    chat_calls,      \* chat-completion calls of the current invocation
    sys_appends,     \* system messages appended so far, and since the last clear
    trace,           \* what each chat-completion call of the current invocation
                     \* came back with: tool calls, a final content, or a failure
                     \* (trace, exec_log, base, prev and last_sent describe the
                     \* store's content and start afresh when it is cleared)
    exec_log,        \* the calls of the current turn whose execution ended, in order
    base,            \* the store when the current invocation began
    prev,            \* the store when the previous invocation returned
    last_sent,       \* arguments of the last chat-completion call
    ops,             \* direct MCPClient calls so far
    last,            \* the last direct MCPClient call and its outcome
    \* functions applied on their own
    fn_in,           \* the function and the arguments it is applied to
    fn_out,          \* what it returned or raised, once applied
    \* one stdio connection used by tasks of one event loop
    tasks,           \* where each task stands in _send_stdio_request
    pipe,            \* the child's stdin and stdout, line by line
    stdio_log,       \* the ids written, read and abandoned so far, and how
                     \* each call ended
    \* process_user_request called by several tasks of one event loop
    invocations      \* the local variables of each call

orch_vars == <<pc, mcp_client, max_iterations, messages, iteration, response,
               tool_results, idx, executing, returned>>
mcp_vars == <<servers, request_id_counter, sent, live, next_handle, exited>>
hist_vars == <<requests, resets, tool_budget, chat_calls, sys_appends, trace,
               exec_log, base, prev, last_sent>>
api_vars == <<ops, last>>
fn_vars == <<fn_in, fn_out>>
task_vars == <<tasks, pipe, stdio_log>>
vars == <<orch_vars, mcp_vars, hist_vars, api_vars, fn_vars, task_vars, invocations>>

ClientState ==
    [servers |-> servers, request_id_counter |-> request_id_counter,
     sent |-> sent, live |-> live, next_handle |-> next_handle,
     exited |-> exited]

SetClient(st) ==
    /\ servers' = st.servers
    /\ request_id_counter' = st.request_id_counter
    /\ sent' = st.sent
    /\ live' = st.live
    /\ next_handle' = st.next_handle
    /\ exited' = st.exited

NoResponse == [content |-> NoneSeq, tool_calls |-> <<>>]
NoCall == [op |-> "none"]
NoArg == [fn |-> "none"]
NoOut == [done |-> FALSE]

\* The tasks of the event loop that use the connection: the one that runs
\* init_agent and the orchestrator, and one more.
MainTask == 1
Tasks == {1, 2}
NoAnswer == [kind |-> "none", id |-> 0, error |-> FALSE]
TaskIdle == [pc |-> "idle", id |-> 0, method |-> "none", calls |-> 0, got |-> NoAnswer]

\* A call of process_user_request that has not begun.
NotCalled ==
    [pc |-> "none", iteration |-> 0, response |-> NoResponse, tool_results |-> <<>>,
     idx |-> 0, returned |-> NoneSeq]

\* MCPClient.__init__; the orchestrator's fields hold their initial values
\* until init_agent builds it.
InitObjects ==
    /\ pc = "init"
    /\ mcp_client = FALSE
    /\ max_iterations = 0
    /\ messages = <<>>
    /\ iteration = 0
    /\ response = NoResponse
    /\ tool_results = <<>>
    /\ idx = 0
    /\ executing = {}
    /\ returned = NoneSeq
    /\ servers = <<>>
    /\ request_id_counter = 0
    /\ sent = <<>>
    /\ live = {}
    /\ next_handle = 1
    /\ exited = {}
    /\ requests = 0
    /\ resets = 0
    /\ tool_budget = 0
    /\ chat_calls = 0
    /\ sys_appends = [total |-> 0, since_clear |-> 0]
    /\ trace = <<>>
    /\ exec_log = <<>>
    /\ base = <<>>
    /\ prev = <<>>
    /\ last_sent = [messages |-> <<>>, tools |-> {}]
    /\ ops = 0
    /\ last = NoCall
    /\ tasks = [t \in Tasks |-> TaskIdle]
    /\ pipe = [stdin |-> <<>>, stdout |-> <<>>, eof |-> FALSE]
    /\ stdio_log = [written |-> <<>>, read |-> <<>>, cancelled |-> {}, ended |-> <<>>]
    /\ invocations = [t \in Tasks |-> NotCalled]

Init ==
    /\ InitObjects
    /\ fn_in = NoArg
    /\ fn_out = NoOut

\* ------------------------------------------------------------- init_agent
\* The server init_agent connects: the one entry of the mcpServers section.
ConfiguredServer == "fs"

\* init_agent with no mcpServers section: mcp_client stays None; the
\* orchestrator is built with the configured max_iterations.
InitAgentNoMcp ==
    /\ pc = "init"
    /\ pc' = "idle"
    /\ max_iterations' \in 0..MaxIter
    /\ UNCHANGED <<mcp_client, messages, iteration, response, tool_results, idx,
                   executing, returned>>
    /\ UNCHANGED <<mcp_vars, hist_vars, api_vars>>
    /\ UNCHANGED fn_vars
    /\ UNCHANGED task_vars
    /\ UNCHANGED invocations

\* The configurations the mcpServers entry may hold.
AgentConfigs ==
    { [transport |-> "stdio", command |-> "server-bin"],
      [transport |-> "http", url |-> "http://localhost/mcp"],
      [transport |-> "http"] }

\* init_agent with an mcpServers section: connect_server inside try/except, a
\* failure is logged and the agent is built all the same.
InitAgentConnect ==
    /\ pc = "init"
    /\ \E config \in AgentConfigs, init_reply \in InitializeReplies,
          list_reply \in ToolsListReplies :
          SetClient(connect_server(ClientState, ConfiguredServer, config,
                                   init_reply, list_reply).st)
    /\ mcp_client' = TRUE
    /\ pc' = "idle"
    /\ max_iterations' \in 0..MaxIter
    /\ UNCHANGED <<messages, iteration, response, tool_results, idx, executing,
                   returned>>
    /\ UNCHANGED <<hist_vars, api_vars>>
    /\ UNCHANGED fn_vars
    /\ UNCHANGED task_vars
    /\ UNCHANGED invocations

\* ----------------------------------------------------------- orchestrator
UserTexts == {<<"write a.txt">>}

ToolCall(id, name, arguments) ==
    [id |-> id, function |-> [name |-> name, arguments |-> arguments]]

\* The tool calls a model turn may carry: one per way a call can end.
ToolCallUniverse ==
    { ToolCall("call_1", <<"write">>, GoodArgs),
      ToolCall("call_2", <<"write">>, BadArgs),
      ToolCall("call_3", <<"write">>, EmptyArgs),
      ToolCall("call_4", <<"search">>, GoodArgs),
      ToolCall("call_5", <<"fs", "write">>, GoodArgs),
      ToolCall("call_6", <<"db", "query">>, GoodArgs) }

ToolCallLists == UNION { [1..n -> ToolCallUniverse] : n \in 1..MaxCalls }

FinalContents == {<<"Done">>, NoneSeq}

\* The system message appended on every invocation.
BeginRequestAlwaysSystem(msgs, user_message) ==
    add_user_message(
        add_message(msgs, Message("system", SYSTEM_PROMPT, NoneSeq, NoneStr, NoneSeq)),
        user_message)

\* process_user_request, lines 52-60: the system message if the store is
\* empty, then the user message.
BeginRequest(msgs, user_message) ==
    add_user_message(
        IF get_message_count(msgs) = 0
        THEN add_message(msgs, Message("system", SYSTEM_PROMPT, NoneSeq, NoneStr, NoneSeq))
        ELSE msgs,
        user_message)

ProcessUserRequest ==
    /\ pc = "idle"
    /\ requests < MaxRequests
    /\ \E user_message \in UserTexts :
          messages' = BeginRequest(messages, user_message)
    /\ iteration' = 0
    /\ pc' = "loop"
    /\ requests' = requests + 1
    /\ chat_calls' = 0
    /\ trace' = <<>>
    /\ base' = messages
    /\ sys_appends' =
          LET n == Cardinality({i \in 1..Len(messages') : messages'[i].role = "system"})
                   - Cardinality({i \in 1..Len(messages) : messages[i].role = "system"})
          IN [total |-> sys_appends.total + n, since_clear |-> sys_appends.since_clear + n]
    /\ UNCHANGED <<mcp_client, max_iterations, response, tool_results, idx,
                   executing, returned>>
    /\ UNCHANGED <<mcp_vars, api_vars, resets, tool_budget, exec_log, prev, last_sent>>
    /\ UNCHANGED fn_vars
    /\ UNCHANGED task_vars
    /\ UNCHANGED invocations

\* reset_conversation -> ConversationManager.clear
ResetConversation ==
    /\ pc = "idle"
    /\ resets < MaxResets
    /\ messages' = <<>>
    /\ resets' = resets + 1
    /\ prev' = <<>>
    /\ sys_appends' = [sys_appends EXCEPT !.since_clear = 0]
    /\ trace' = <<>>
    /\ exec_log' = <<>>
    /\ base' = <<>>
    /\ last_sent' = [messages |-> <<>>, tools |-> {}]
    /\ UNCHANGED <<pc, mcp_client, max_iterations, iteration, response,
                   tool_results, idx, executing, returned>>
    /\ UNCHANGED <<mcp_vars, api_vars, requests, tool_budget, chat_calls>>
    /\ UNCHANGED fn_vars
    /\ UNCHANGED task_vars
    /\ UNCHANGED invocations

\* The while condition off by one.
LoopContinuesInclusive(i, max) == i <= max

\* The while condition of line 64.
LoopContinues(i, max) == i < max

\* _get_available_tools: the names of the merged catalog.
_get_available_tools ==
    { tools[n].name : n \in DOMAIN tools }
    \cup (IF mcp_client
          THEN { t.function.name : t \in list_tools(ClientState, NoneStr) }
          ELSE {})

\* Lines 64-76: one more iteration, the chat-completion call is issued.
ChatRequest ==
    /\ pc = "loop"
    /\ LoopContinues(iteration, max_iterations)
    /\ iteration' = iteration + 1
    /\ last_sent' = [messages |-> get_messages_for_llm(messages),
                     tools |-> _get_available_tools]
    /\ chat_calls' = chat_calls + 1
    /\ pc' = "chat"
    /\ UNCHANGED <<mcp_client, max_iterations, messages, response, tool_results,
                   idx, executing, returned>>
    /\ UNCHANGED <<mcp_vars, api_vars, requests, resets, tool_budget, sys_appends,
                   trace, exec_log, base, prev>>
    /\ UNCHANGED fn_vars
    /\ UNCHANGED task_vars
    /\ UNCHANGED invocations

\* Line 123: the loop is exhausted.
IterationLimit ==
    /\ pc = "loop"
    /\ ~LoopContinues(iteration, max_iterations)
    /\ returned' = LIMIT_MESSAGE
    /\ pc' = "idle"
    /\ prev' = messages
    /\ response' = NoResponse
    /\ tool_results' = <<>>
    /\ iteration' = 0
    /\ idx' = 0
    /\ UNCHANGED <<mcp_client, max_iterations, messages, executing>>
    /\ UNCHANGED <<mcp_vars, api_vars, requests, resets, tool_budget, chat_calls,
                   sys_appends, trace, exec_log, base, last_sent>>
    /\ UNCHANGED fn_vars
    /\ UNCHANGED task_vars
    /\ UNCHANGED invocations

ChatErrors == {<<"LLM call error: timeout">>}

\* The except branch storing the failure as an assistant message.
OnChatErrorAppends(msgs, e) ==
    [messages |-> add_assistant_message(
                      msgs, <<"Error while processing the request: ">> \o e, NoneSeq),
     returned |-> <<"Error while processing the request: ">> \o e]

\* Lines 77-79: what the except branch leaves: the store and the return value.
OnChatError(msgs, e) ==
    [messages |-> msgs, returned |-> <<"Error while processing the request: ">> \o e]

ChatFails ==
    /\ pc = "chat"
    /\ \E e \in ChatErrors :
          /\ messages' = OnChatError(messages, e).messages
          /\ returned' = OnChatError(messages, e).returned
    /\ pc' = "idle"
    /\ trace' = Append(trace, [kind |-> "failed"])
    /\ prev' = messages'
    /\ response' = NoResponse
    /\ tool_results' = <<>>
    /\ iteration' = 0
    /\ idx' = 0
    /\ UNCHANGED <<mcp_client, max_iterations, executing>>
    /\ UNCHANGED <<mcp_vars, api_vars, requests, resets, tool_budget, chat_calls,
                   sys_appends, exec_log, base, last_sent>>
    /\ UNCHANGED fn_vars
    /\ UNCHANGED task_vars
    /\ UNCHANGED invocations

\* The final response returned without being stored.
OnFinalResponseNoAppend(msgs, content) ==
    [messages |-> msgs, returned |-> content]

\* Lines 116-120: a response without tool calls ends the invocation.
OnFinalResponse(msgs, content) ==
    [messages |-> add_assistant_message(msgs, content, NoneSeq), returned |-> content]

ChatReturnsFinal ==
    /\ pc = "chat"
    /\ \E content \in FinalContents :
          /\ messages' = OnFinalResponse(messages, content).messages
          /\ returned' = OnFinalResponse(messages, content).returned
          /\ trace' = Append(trace, [kind |-> "final", content |-> content])
    /\ pc' = "idle"
    /\ prev' = messages'
    /\ response' = NoResponse
    /\ tool_results' = <<>>
    /\ iteration' = 0
    /\ idx' = 0
    /\ UNCHANGED <<mcp_client, max_iterations, executing>>
    /\ UNCHANGED <<mcp_vars, api_vars, requests, resets, tool_budget, chat_calls,
                   sys_appends, exec_log, base, last_sent>>
    /\ UNCHANGED fn_vars
    /\ UNCHANGED task_vars
    /\ UNCHANGED invocations

\* Lines 82-86: a response with tool calls starts the for loop.
ChatReturnsToolCalls ==
    /\ pc = "chat"
    /\ \E tool_calls \in ToolCallLists :
          /\ tool_budget + Len(tool_calls) <= MaxToolCalls
          /\ response' = [content |-> NoneSeq, tool_calls |-> tool_calls]
          /\ tool_budget' = tool_budget + Len(tool_calls)
          /\ trace' = Append(trace, [kind |-> "tools", tool_calls |-> tool_calls])
    /\ tool_results' = <<>>
    /\ idx' = 1
    /\ pc' = "tools"
    /\ exec_log' = <<>>
    /\ UNCHANGED <<mcp_client, max_iterations, messages, iteration, executing, returned>>
    /\ UNCHANGED <<mcp_vars, api_vars, requests, resets, chat_calls, sys_appends,
                   base, prev, last_sent>>
    /\ UNCHANGED fn_vars
    /\ UNCHANGED task_vars
    /\ UNCHANGED invocations

\* What one dispatch did: the target the call was handed to and the number of
\* runs of a local tool's execute.
Dispatched(o, target, executed) == o @@ [target |-> target, executed |-> executed]

\* _execute_tool_call trying the MCP client first and falling back to the
\* local catalog when the remote call fails.
_execute_tool_call_RemoteFirst(st, tool_call) ==
    LET tool_name == tool_call.function.name
        parsed == JsonLoads(tool_call.function.arguments)
        Entry(val) == [tool_call_id |-> tool_call.id, name |-> tool_name, result |-> val]
        Local(s, target) ==
            { Dispatched(IF o.raised THEN Raise(s, o.error) ELSE Return(s, Entry(o.value)),
                         target, o.executed) :
                o \in registry_call_tool(tool_name, parsed.value) }
    IN IF ~parsed.ok
       THEN { Dispatched(Raise(st, <<"Invalid JSON in arguments: ", "Expecting value">>),
                         "none", 0) }
       ELSE IF mcp_client
       THEN UNION { LET r == mcp_call_tool(st, <<ConfiguredServer>> \o tool_name,
                                           parsed.value, reply)
                    IN IF r.raised /\ get_tool(tool_name) THEN Local(r.st, "both")
                       ELSE { Dispatched(IF r.raised THEN r ELSE Return(r.st, Entry(r.value)),
                                         "remote", 0) } :
                      reply \in ToolsCallReplies }
       ELSE IF get_tool(tool_name) THEN Local(st, "local")
       ELSE { Dispatched(Raise(st, <<"Tool not found: ">> \o tool_name), "none", 0) }

\* _execute_tool_call: decode the arguments, dispatch to the local catalog or
\* to the MCP client, return the result entry; every failure is an exception.
_execute_tool_call(st, tool_call) ==
    LET tool_name == tool_call.function.name
        parsed == JsonLoads(tool_call.function.arguments)
        Entry(val) == [tool_call_id |-> tool_call.id, name |-> tool_name, result |-> val]
    IN IF ~parsed.ok
       THEN { Dispatched(Raise(st, <<"Invalid JSON in arguments: ", "Expecting value">>),
                         "none", 0) }
       ELSE IF get_tool(tool_name)
       THEN { Dispatched(IF o.raised THEN Raise(st, o.error) ELSE Return(st, Entry(o.value)),
                         "local", o.executed) :
                o \in registry_call_tool(tool_name, parsed.value) }
       ELSE IF mcp_client /\ Len(tool_name) > 1
       THEN { LET r == mcp_call_tool(st, tool_name, parsed.value, reply)
              IN Dispatched(IF r.raised THEN r ELSE Return(r.st, Entry(r.value)),
                            "remote", 0) :
                reply \in ToolsCallReplies }
       ELSE { Dispatched(Raise(st, <<"Tool not found: ">> \o tool_name), "none", 0) }

\* error_result with the call's id lost.
error_result_NoId(tool_call, e) ==
    [tool_call_id |-> "", name |-> tool_call.function.name,
     result |-> StrVal(<<"Error: ">> \o e)]

\* Lines 93-99: the entry the except branch appends.
error_result(tool_call, e) ==
    [tool_call_id |-> tool_call.id, name |-> tool_call.function.name,
     result |-> StrVal(<<"Error: ">> \o e)]

\* The for loop body without its try/except: an exception leaves the method.
RunToolCallPropagates(st, tool_call) ==
    { [st |-> r.st, raised |-> r.raised, aborted |-> r.raised,
       result |-> IF r.raised THEN error_result(tool_call, r.error) ELSE r.value] :
        r \in _execute_tool_call(st, tool_call) }

\* Lines 88-99: one pass of the for loop body.  aborted says that an exception
\* leaves process_user_request; the try/except lets none through.
RunToolCall(st, tool_call) ==
    { [st |-> r.st, raised |-> r.raised, aborted |-> FALSE,
       result |-> IF r.raised THEN error_result(tool_call, r.error) ELSE r.value] :
        r \in _execute_tool_call(st, tool_call) }

\* Lines 101-112: the assistant message with the tool calls, then one tool
\* message per entry of tool_results.
RECURSIVE AddToolMessages(_, _)
AddToolMessages(msgs, results) ==
    IF results = <<>> THEN msgs
    ELSE AddToolMessages(
             add_tool_message(msgs, Head(results).tool_call_id, Head(results).name,
                              Head(results).result),
             Tail(results))

\* The tool messages appended before the assistant message.
AppendTurn_AssistantLast(msgs, resp, results) ==
    add_assistant_message(AddToolMessages(msgs, results), resp.content, resp.tool_calls)

AppendTurn(msgs, resp, results) ==
    AddToolMessages(add_assistant_message(msgs, resp.content, resp.tool_calls), results)

\* All remaining calls of the turn started together (asyncio.gather).
CallsStartedGather(i, n) == i..n

\* The calls whose execution the for loop starts when it reaches position i of n.
CallsStarted(i, n) == {i}

\* Line 89: _execute_tool_call is awaited for the call at idx.
StartToolCall ==
    /\ pc = "tools"
    /\ executing' = executing \cup CallsStarted(idx, Len(response.tool_calls))
    /\ pc' = "exec"
    /\ UNCHANGED <<mcp_client, max_iterations, messages, iteration, response,
                   tool_results, idx, returned>>
    /\ UNCHANGED <<mcp_vars, hist_vars, api_vars>>
    /\ UNCHANGED fn_vars
    /\ UNCHANGED task_vars
    /\ UNCHANGED invocations

\* Lines 89-115: the awaited call ends; its entry is appended; after the last
\* call the turn's messages are appended and the loop continues.
FinishToolCall ==
    /\ pc = "exec"
    /\ \E out \in RunToolCall(ClientState, response.tool_calls[idx]) :
          /\ SetClient(out.st)
          /\ exec_log' = Append(exec_log, [i |-> idx, raised |-> out.raised])
          /\ executing' = executing \ {idx}
          /\ IF out.aborted
             THEN /\ pc' = "idle"
                  /\ returned' = <<"raise">>
                  /\ prev' = messages
                  /\ UNCHANGED <<messages, tool_results, idx>>
             ELSE /\ tool_results' = Append(tool_results, out.result)
                  /\ UNCHANGED <<returned, prev>>
                  /\ IF idx < Len(response.tool_calls)
                     THEN /\ idx' = idx + 1
                          /\ pc' = "tools"
                          /\ UNCHANGED messages
                     ELSE /\ messages' = AppendTurn(messages, response, tool_results')
                          /\ pc' = "loop"
                          /\ UNCHANGED idx
    /\ UNCHANGED <<mcp_client, max_iterations, iteration, response>>
    /\ UNCHANGED <<api_vars, requests, resets, tool_budget, chat_calls, sys_appends,
                   trace, base, last_sent>>
    /\ UNCHANGED fn_vars
    /\ UNCHANGED task_vars
    /\ UNCHANGED invocations

\* --------------------------------------------- the MCP client used directly
\* The calls below are those of a program that drives an MCPClient itself,
\* one call at a time, before any orchestrator exists.
ApiToolNames == {<<"fs", "write">>, <<"db", "write">>, <<"write">>}
ApiArguments == DictVal([file_path |-> StrVal(<<"a.txt">>), contents |-> StrVal(<<"hi">>)])
ConnectServer ==
    /\ pc = "init"
    /\ ops < MaxOps
    /\ \E name \in ServerNames, config \in Configs,
          init_reply \in InitializeReplies, list_reply \in ToolsListReplies :
          LET r == connect_server(ClientState, name, config, init_reply, list_reply)
          IN /\ SetClient(r.st)
             /\ last' = [op |-> "connect_server", name |-> name, config |-> config,
                         init_reply |-> init_reply.kind, list_reply |-> list_reply.kind,
                         raised |-> r.raised]
    /\ ops' = ops + 1
    /\ UNCHANGED <<orch_vars, hist_vars>>
    /\ UNCHANGED fn_vars
    /\ UNCHANGED task_vars
    /\ UNCHANGED invocations

CallTool ==
    /\ pc = "init"
    /\ ops < MaxOps
    /\ \E tool_name \in ApiToolNames, reply \in ToolsCallReplies :
          LET r == mcp_call_tool(ClientState, tool_name, ApiArguments, reply)
          IN /\ SetClient(r.st)
             /\ last' = [op |-> "call_tool", name |-> tool_name, reply |-> reply.kind,
                         raised |-> r.raised, value |-> r.value, error |-> r.error]
    /\ ops' = ops + 1
    /\ UNCHANGED <<orch_vars, hist_vars>>
    /\ UNCHANGED fn_vars
    /\ UNCHANGED task_vars
    /\ UNCHANGED invocations

ListTools ==
    /\ pc = "init"
    /\ ops < MaxOps
    /\ \E server_name \in ServerNames \cup {NoneStr} :
          last' = [op |-> "list_tools", name |-> server_name,
                   value |-> list_tools(ClientState, server_name)]
    /\ ops' = ops + 1
    /\ UNCHANGED <<orch_vars, hist_vars, mcp_vars>>
    /\ UNCHANGED fn_vars
    /\ UNCHANGED task_vars
    /\ UNCHANGED invocations

DisconnectServer ==
    /\ pc = "init"
    /\ ops < MaxOps
    /\ \E name \in ServerNames :
          LET r == disconnect_server(ClientState, name)
          IN /\ SetClient(r.st)
             /\ last' = [op |-> "disconnect_server", name |-> name,
                         registered |-> name \in DOMAIN servers,
                         raised |-> r.raised]
    /\ ops' = ops + 1
    /\ UNCHANGED <<orch_vars, hist_vars>>
    /\ UNCHANGED fn_vars
    /\ UNCHANGED task_vars
    /\ UNCHANGED invocations

\* ------------------------------------ servers that misbehave on the wire
\* The calls below drive an MCPClient that first connects its servers, which
\* complete the handshake, and then calls their tools and disconnects, while
\* the servers write lines of their own making, or exit.
WorkingConfigs ==
    { [transport |-> "stdio", command |-> "server-bin"],
      [transport |-> "http", url |-> "http://localhost/mcp"] }

\* What a server may do on a tools/call request.
WireCallReplies ==
    { ResultReply([content |-> TextContent]),
      FailureReply,
      MalformedReply,
      ForeignReply([content |-> TextContent]),
      DoubledReply([content |-> TextContent]),
      StatusReply(300, [content |-> TextContent]),
      StatusReply(404, [content |-> TextContent]) }

WireToolNames == {<<"fs", "write">>, <<"db", "write">>}

ConnectWorking ==
    /\ pc = "init"
    /\ ops = 0
    /\ next_handle <= MaxConnects
    /\ \E name \in ServerNames, config \in WorkingConfigs :
          LET r == connect_server(ClientState, name, config,
                                  ResultReply([protocolVersion |-> "2026-01-04"]),
                                  ResultReply([tools |-> <<RemoteWrite>>]))
          IN /\ SetClient(r.st)
             /\ last' = [op |-> "connect_server", name |-> name, config |-> config,
                         init_reply |-> "result", list_reply |-> "result",
                         raised |-> r.raised]
    /\ UNCHANGED <<orch_vars, hist_vars, ops>>
    /\ UNCHANGED fn_vars
    /\ UNCHANGED task_vars
    /\ UNCHANGED invocations

\* last.status is the status of the HTTP response to the call's request, 0
\* when the call posted none.
CallToolWire ==
    /\ pc = "init"
    /\ ops < MaxOps
    /\ \E tool_name \in WireToolNames, reply \in WireCallReplies :
          LET r == mcp_call_tool(ClientState, tool_name, ApiArguments, reply)
              posted == /\ Head(tool_name) \in DOMAIN servers
                        /\ servers[Head(tool_name)].transport = "http"
                        /\ reply.kind # "failure"
          IN /\ SetClient(r.st)
             /\ last' = [op |-> "call_tool", name |-> tool_name, reply |-> reply.kind,
                         status |-> IF posted THEN HttpStatus(reply) ELSE 0,
                         raised |-> r.raised, value |-> r.value, error |-> r.error]
    /\ ops' = ops + 1
    /\ UNCHANGED <<orch_vars, hist_vars>>
    /\ UNCHANGED fn_vars
    /\ UNCHANGED task_vars
    /\ UNCHANGED invocations

DisconnectAll ==
    /\ pc = "init"
    /\ ops < MaxOps
    /\ LET r == disconnect_all(ClientState)
       IN /\ SetClient(r.st)
          /\ last' = [op |-> "disconnect_all", registered |-> DOMAIN servers,
                      attempted |-> r.attempted, failed |-> r.failed,
                      raised |-> r.raised]
    /\ ops' = ops + 1
    /\ UNCHANGED <<orch_vars, hist_vars>>
    /\ UNCHANGED fn_vars
    /\ UNCHANGED task_vars
    /\ UNCHANGED invocations

\* A child process of a stdio connection exits on its own.
ChildExits ==
    /\ pc = "init"
    /\ \E name \in DOMAIN servers :
          /\ servers[name].transport = "stdio"
          /\ servers[name].handle \notin exited
          /\ exited' = exited \cup {servers[name].handle}
    /\ UNCHANGED <<orch_vars, hist_vars, api_vars>>
    /\ UNCHANGED <<servers, request_id_counter, sent, live, next_handle>>
    /\ UNCHANGED fn_vars
    /\ UNCHANGED task_vars
    /\ UNCHANGED invocations

\* ---------------------------------------------------------- specifications
\* The agent: init_agent, then requests and resets on the orchestrator.
Next ==
    \/ InitAgentNoMcp
    \/ InitAgentConnect
    \/ ProcessUserRequest
    \/ ResetConversation
    \/ ChatRequest
    \/ IterationLimit
    \/ ChatFails
    \/ ChatReturnsFinal
    \/ ChatReturnsToolCalls
    \/ StartToolCall
    \/ FinishToolCall

Spec == Init /\ [][Next]_vars

\* The MCP client driven directly.
NextMCP ==
    \/ ConnectServer
    \/ CallTool
    \/ ListTools
    \/ DisconnectServer

SpecMCP == Init /\ [][NextMCP]_vars

\* The MCP client against servers that misbehave after the handshake.
NextWire ==
    \/ ConnectWorking
    \/ CallToolWire
    \/ DisconnectServer
    \/ DisconnectAll
    \/ ChildExits

SpecWire == Init /\ [][NextWire]_vars

\* ------------------------------------ the conversation store used directly
\* The calls below are those of a program that drives a ConversationManager
\* itself, one call at a time.
StoreTexts == {<<"write a.txt">>, <<"">>}
StoreToolCalls == {NoneSeq, <<ToolCall("call_1", <<"write">>, GoodArgs)>>}
StoreResults ==
    { StrVal(<<"written">>), DictVal([success |-> BoolVal(TRUE)]), ListVal(<<>>) }

AddUserMessage ==
    /\ pc = "init"
    /\ ops < MaxOps
    /\ \E content \in StoreTexts :
          messages' = add_user_message(messages, content)
    /\ last' = [op |-> "add_user_message"]
    /\ ops' = ops + 1
    /\ UNCHANGED <<pc, mcp_client, max_iterations, iteration, response,
                   tool_results, idx, executing, returned>>
    /\ UNCHANGED <<mcp_vars, hist_vars, fn_vars>>
    /\ UNCHANGED task_vars
    /\ UNCHANGED invocations

AddAssistantMessage ==
    /\ pc = "init"
    /\ ops < MaxOps
    /\ \E content \in FinalContents, tool_calls \in StoreToolCalls :
          messages' = add_assistant_message(messages, content, tool_calls)
    /\ last' = [op |-> "add_assistant_message"]
    /\ ops' = ops + 1
    /\ UNCHANGED <<pc, mcp_client, max_iterations, iteration, response,
                   tool_results, idx, executing, returned>>
    /\ UNCHANGED <<mcp_vars, hist_vars, fn_vars>>
    /\ UNCHANGED task_vars
    /\ UNCHANGED invocations

AddToolMessage ==
    /\ pc = "init"
    /\ ops < MaxOps
    /\ \E tool_call_id \in {"call_1", "call_2"}, name \in {<<"write">>, <<"fs", "write">>},
          content \in StoreResults :
          messages' = add_tool_message(messages, tool_call_id, name, content)
    /\ last' = [op |-> "add_tool_message"]
    /\ ops' = ops + 1
    /\ UNCHANGED <<pc, mcp_client, max_iterations, iteration, response,
                   tool_results, idx, executing, returned>>
    /\ UNCHANGED <<mcp_vars, hist_vars, fn_vars>>
    /\ UNCHANGED task_vars
    /\ UNCHANGED invocations

\* ConversationManager.get_messages
GetMessages ==
    /\ pc = "init"
    /\ ops < MaxOps
    /\ last' = [op |-> "get_messages", value |-> get_messages_for_llm(messages)]
    /\ ops' = ops + 1
    /\ UNCHANGED <<orch_vars, mcp_vars, hist_vars, fn_vars>>
    /\ UNCHANGED invocations
    /\ UNCHANGED task_vars
    /\ UNCHANGED invocations

NextConversation ==
    \/ AddUserMessage
    \/ AddAssistantMessage
    \/ AddToolMessage
    \/ GetMessages

SpecConversation == Init /\ [][NextConversation]_vars

\* ------------------------------------------------ functions on their own
\* The functions below are applied once each to an argument drawn when the
\* run begins.
RequestIds ==
    { IntVal(1), IntVal(7), StrVal(<<"7">>), StrVal(<<"req-", "\"", "1", "\"">>) }
RequestMethods ==
    { <<"tools/call">>, <<"initialize">>, <<"a", "\n", "b">>, <<"\\", "n">>, <<"}">> }
RequestParams ==
    { NoValue,
      DictVal(EmptyDict),
      DictVal([name |-> StrVal(<<"write">>),
               arguments |-> DictVal([file_path |-> StrVal(<<"a.txt">>),
                                      contents |-> StrVal(<<"hi", "\n", "there", "\n">>)])]),
      DictVal([cursor |-> NoValue, limit |-> IntVal(7),
               tags |-> ListVal(<<StrVal(<<"x, y">>), BoolVal(TRUE), ListVal(<<>>)>>)]) }
MCPRequests ==
    { MCPRequest(id, method, params) :
        id \in RequestIds, method \in RequestMethods, params \in RequestParams }

\* The results a server may put in a tools/call response: content lists with
\* and without text entries.
ImageItem == [type |-> "image", data |-> <<"iVBOR">>]
TextItem(text) == [type |-> "text", text |-> text]
CallResults ==
    { [isError |-> FALSE],
      [content |-> <<>>],
      [content |-> TextContent],
      [content |-> <<TextItem(<<"7">>)>>],
      [content |-> <<TextItem(<<"plain words">>)>>],
      [content |-> <<TextItem(<<" ", "plain words", "\n">>)>>],
      [content |-> <<TextItem(<<" ">>)>>],
      [content |-> <<TextItem(<<"">>)>>],
      [content |-> <<[type |-> "text"]>>],
      [content |-> <<ImageItem>>],
      [content |-> <<ImageItem, TextItem(<<"{\"success\": true}">>)>>],
      [content |-> <<TextItem(<<"first">>), ImageItem, TextItem(<<"second">>)>>],
      [content |-> <<TextItem(<<"{\"success\": true}">>), TextItem(<<"">>)>>] }

\* Schemas declaring one parameter "x" of each type the type map knows,
\* required or optional, and the arguments a caller may supply: "x" absent or
\* holding a value of each JSON type, with or without an undeclared "y".
FloatVal(digits) == [t |-> "float", v |-> digits]
SchemaTypes == {"string", "integer", "number", "boolean", "array", "object"}
Schemas ==
    { [required |-> required, properties |-> [x |-> type]] :
        required \in {{}, {"x"}}, type \in SchemaTypes }
ArgumentValues ==
    { StrVal(<<"a.txt">>), IntVal(7), FloatVal("1.5"), BoolVal(TRUE),
      ListVal(<<>>), DictVal(EmptyDict), NoValue }
ArgumentDicts ==
    LET xs == {EmptyDict} \cup { [k \in {"x"} |-> value] : value \in ArgumentValues }
        ys == {EmptyDict, [k \in {"y"} |-> IntVal(7)]}
    IN { DictVal(x @@ y) : x \in xs, y \in ys }

\* The names and arguments handed to ToolRegistry.call_tool.
RegistryNames == {<<"write">>, <<"search">>}
RegistryArguments ==
    { ApiArguments,
      DictVal(EmptyDict),
      DictVal([file_path |-> StrVal(<<"a.txt">>)]),
      DictVal([file_path |-> IntVal(7), contents |-> StrVal(<<"hi">>)]),
      DictVal([file_path |-> StrVal(<<"a.txt">>), contents |-> StrVal(<<"hi">>),
               mode |-> StrVal(<<"w">>)]) }

\* The tools handed to register: two names, two tools of each name, and the
\* catalogs earlier register calls can have built from them.
Tool(name, description) ==
    [name |-> <<name>>, description |-> description, parameters_schema |-> WriteSchema]
ToolNames == {"write", "read"}
ToolUniverse ==
    { Tool(name, description) : name \in ToolNames, description \in {"first", "second"} }
Registries ==
    UNION { { registry \in [names -> ToolUniverse] :
                \A n \in names : registry[n].name = <<n>> } :
            names \in SUBSET ToolNames }

\* The tool calls a model turn may carry when ids and names are any strings,
\* the empty string included.
AnyToolCalls ==
    { ToolCall(id, name, arguments) :
        id \in {"call_1", ""},
        name \in {<<"write">>, <<"search">>, <<"fs", "write">>, <<"">>},
        arguments \in ArgTexts }

\* The servers connected and the one tool each of them lists: their names may
\* hold dots.
ConnectedNames == {<<"fs">>, <<"my.server">>, <<"my", "my.server">>}
RemoteTools ==
    { RemoteWrite,
      [name |-> <<"read", "file">>, description |-> "read a file"],
      [name |-> <<"server", "write">>, description |-> "write on the server"] }

\* connect_server for each name in turn, each server answering initialize and
\* listing the one tool.
RECURSIVE ConnectEach(_, _, _)
ConnectEach(st, names, remote) ==
    IF names = <<>> THEN st
    ELSE ConnectEach(connect_server(st, Head(names), StdioConfig,
                                    ResultReply([protocolVersion |-> "2026-01-04"]),
                                    ResultReply([tools |-> <<remote>>])).st,
                     Tail(names), remote)

\* RunTerminalCmdTool.  Times are in seconds.  A run of the command is what
\* the operating system makes of it: whether the shell can be spawned, how
\* long the command takes and the return code it ends with.
DefaultTimeout == 60
Min(a, b) == IF a <= b THEN a ELSE b

TerminalResult(returncode, stderr, timeout) ==
    [returncode |-> returncode, stdout |-> "", stderr |-> stderr, timeout |-> timeout]

\* What execute did: raised or returned result, how long it waited for the
\* command, whether it killed the child (the shell it spawned) and whether the child is still
\* running when execute ends.
TerminalOutcome(raised, result, waited, killed, running) ==
    [raised |-> raised, result |-> result, waited |-> waited, killed |-> killed,
     running |-> running]

\* execute waiting for the requested timeout whatever max_timeout is.
execute_NoClamp(command, working_dir, timeout, max_timeout, run) ==
    LET limit == timeout
        TimedOut == TerminalOutcome(FALSE, TerminalResult(-1, "Timeout", TRUE),
                                    IF limit > 0 THEN limit ELSE 0, TRUE, FALSE)
        Ended == TerminalOutcome(FALSE, TerminalResult(run.returncode, "", FALSE),
                                 run.duration, FALSE, FALSE)
    IN IF working_dir = "missing"
       THEN { TerminalOutcome(TRUE, TerminalResult(0, "", FALSE), 0, FALSE, FALSE) }
       ELSE IF command = "rm -rf /"
       THEN { TerminalOutcome(TRUE, TerminalResult(0, "", FALSE), 0, FALSE, FALSE) }
       ELSE IF ~run.spawned
       THEN { TerminalOutcome(FALSE, TerminalResult(-1, "Execution error", FALSE),
                              0, FALSE, FALSE) }
       ELSE IF limit <= 0 \/ run.duration > limit THEN { TimedOut }
       ELSE IF run.duration = limit THEN { TimedOut, Ended }
       ELSE { Ended }

\* RunTerminalCmdTool.execute: the timeout is clamped to max_timeout; a missing
\* working directory and a forbidden command raise ValueError; the command is
\* run by a shell and awaited with asyncio.wait_for; on TimeoutError the child
\* is killed and awaited and the timeout result is returned; any other
\* exception inside the try returns the error result.  wait_for with a limit
\* of zero or less times out at once; a command that ends exactly at the
\* limit may be seen to end or to time out.
execute(command, working_dir, timeout, max_timeout, run) ==
    LET limit == Min(timeout, max_timeout)
        TimedOut == TerminalOutcome(FALSE, TerminalResult(-1, "Timeout", TRUE),
                                    IF limit > 0 THEN limit ELSE 0, TRUE, FALSE)
        Ended == TerminalOutcome(FALSE, TerminalResult(run.returncode, "", FALSE),
                                 run.duration, FALSE, FALSE)
    IN IF working_dir = "missing"
       THEN { TerminalOutcome(TRUE, TerminalResult(0, "", FALSE), 0, FALSE, FALSE) }
       ELSE IF command = "rm -rf /"
       THEN { TerminalOutcome(TRUE, TerminalResult(0, "", FALSE), 0, FALSE, FALSE) }
       ELSE IF ~run.spawned
       THEN { TerminalOutcome(FALSE, TerminalResult(-1, "Execution error", FALSE),
                              0, FALSE, FALSE) }
       ELSE IF limit <= 0 \/ run.duration > limit THEN { TimedOut }
       ELSE IF run.duration = limit THEN { TimedOut, Ended }
       ELSE { Ended }

\* The calls of execute taken: commands, working directories, requested
\* timeouts (absent: the default), configured max_timeout values and runs.
TerminalCommands == {"sleep", "rm -rf /"}
TerminalDirs == {"", "missing"}
TerminalTimeouts == {0, 1, 2, 3, DefaultTimeout}
TerminalMaxTimeouts == {2, 300}
TerminalRuns ==
    [spawned : BOOLEAN, duration : {0, 1, 2, 3, 61, 301}, returncode : {0, 1}]

FunctionInputs ==
    { [fn |-> "serialize_request", request |-> request] : request \in MCPRequests }
    \cup { [fn |-> "tool_turn", tool_call |-> tool_call] : tool_call \in AnyToolCalls }
    \cup { [fn |-> "register", registry |-> registry, tool |-> tool] :
             registry \in Registries, tool \in ToolUniverse }
    \cup { [fn |-> "registry_call_tool", name |-> name, arguments |-> arguments] :
             name \in RegistryNames, arguments \in RegistryArguments }
    \cup { [fn |-> "validate_arguments", schema |-> schema, arguments |-> arguments] :
             schema \in Schemas, arguments \in ArgumentDicts }
    \cup { [fn |-> "call_tool", result |-> result] : result \in CallResults }
    \cup { [fn |-> "list_tools", names |-> names, remote |-> remote] :
             names \in ConnectedNames, remote \in RemoteTools }
    \cup { [fn |-> "execute", command |-> command, working_dir |-> working_dir,
             timeout |-> timeout, max_timeout |-> max_timeout, run |-> run] :
             command \in TerminalCommands, working_dir \in TerminalDirs,
             timeout \in TerminalTimeouts, max_timeout \in TerminalMaxTimeouts,
             run \in TerminalRuns }

InitFunctions ==
    /\ InitObjects
    /\ fn_in \in FunctionInputs
    /\ fn_out = NoOut

SerializeRequest ==
    /\ fn_in.fn = "serialize_request"
    /\ ~fn_out.done
    /\ fn_out' = [done |-> TRUE, text |-> serialize_request(fn_in.request)]
    /\ UNCHANGED <<orch_vars, mcp_vars, hist_vars, api_vars, fn_in>>
    /\ UNCHANGED task_vars
    /\ UNCHANGED invocations

\* call_tool("fs.write", ...) on a client connected to "fs", the server
\* answering with a result envelope that carries fn_in.result.
CallToolResult ==
    /\ fn_in.fn = "call_tool"
    /\ ~fn_out.done
    /\ LET connected == connect_server(ClientState, "fs",
                                       [transport |-> "stdio", command |-> "server-bin"],
                                       ResultReply([protocolVersion |-> "2026-01-04"]),
                                       ResultReply([tools |-> <<RemoteWrite>>])).st
           r == mcp_call_tool(connected, <<"fs", "write">>, ApiArguments,
                              ResultReply(fn_in.result))
       IN fn_out' = [done |-> TRUE, raised |-> r.raised, value |-> r.value]
    /\ UNCHANGED <<orch_vars, mcp_vars, hist_vars, api_vars, fn_in>>
    /\ UNCHANGED task_vars
    /\ UNCHANGED invocations

\* tool.validate_arguments(arguments) on a tool with the schema fn_in.schema.
ValidateArguments ==
    /\ fn_in.fn = "validate_arguments"
    /\ ~fn_out.done
    /\ fn_out' = [done |-> TRUE,
                  value |-> validate_arguments(fn_in.schema, fn_in.arguments)]
    /\ UNCHANGED <<orch_vars, mcp_vars, hist_vars, api_vars, fn_in>>
    /\ UNCHANGED task_vars
    /\ UNCHANGED invocations

\* tool_registry.call_tool(name, arguments), called directly.
RegistryCallTool ==
    /\ fn_in.fn = "registry_call_tool"
    /\ ~fn_out.done
    /\ \E o \in registry_call_tool(fn_in.name, fn_in.arguments) :
          fn_out' = [done |-> TRUE, raised |-> o.raised, value |-> o.value,
                     error |-> o.error, executed |-> o.executed]
    /\ UNCHANGED <<orch_vars, mcp_vars, hist_vars, api_vars, fn_in>>
    /\ UNCHANGED task_vars
    /\ UNCHANGED invocations

\* tool_registry.register(tool) on the catalog fn_in.registry.
Register ==
    /\ fn_in.fn = "register"
    /\ ~fn_out.done
    /\ LET r == register(fn_in.registry, fn_in.tool)
       IN fn_out' = [done |-> TRUE, raised |-> r.raised, tools |-> r.tools]
    /\ UNCHANGED <<orch_vars, mcp_vars, hist_vars, api_vars, fn_in>>
    /\ UNCHANGED task_vars
    /\ UNCHANGED invocations

\* process_user_request, lines 52-112, for a model turn that carries the one
\* tool call fn_in.tool_call: the call is executed, the assistant message and
\* the tool message are appended; fn_out holds the projection the next
\* chat-completion call is given.
ToolTurn ==
    /\ fn_in.fn = "tool_turn"
    /\ ~fn_out.done
    /\ \E user_message \in UserTexts :
       \E o \in RunToolCall(ClientState, fn_in.tool_call) :
          LET resp == [content |-> NoneSeq, tool_calls |-> <<fn_in.tool_call>>]
              msgs == AppendTurn(BeginRequest(<<>>, user_message), resp, <<o.result>>)
          IN fn_out' = [done |-> TRUE, raised |-> o.raised,
                        messages |-> get_messages_for_llm(msgs)]
    /\ UNCHANGED <<orch_vars, mcp_vars, hist_vars, api_vars, fn_in>>
    /\ UNCHANGED task_vars
    /\ UNCHANGED invocations

\* list_tools() on a client connected to fn_in.names, then call_tool with one
\* of the names listed: fn_out holds the server that tool was discovered on,
\* its remote name, and what call_tool did.
ListToolsThenCall ==
    /\ fn_in.fn = "list_tools"
    /\ ~fn_out.done
    /\ LET st == ConnectEach(ClientState, fn_in.names, fn_in.remote)
       IN \E n \in DOMAIN st.servers :
          \E i \in DOMAIN st.servers[n].tools :
             LET listed == _convert_mcp_tool_to_openai(st.servers[n].tools[i], n)
                 r == mcp_call_tool(st, listed.function.name, ApiArguments,
                                    ResultReply([content |-> TextContent]))
             IN /\ listed \in list_tools(st, NoneStr)
                /\ fn_out' = [done |-> TRUE, server |-> n,
                              remote |-> st.servers[n].tools[i].name,
                              listed |-> listed.function.name,
                              raised |-> r.raised,
                              posted |-> SubSeq(r.st.sent, Len(st.sent) + 1,
                                                Len(r.st.sent))]
    /\ UNCHANGED <<orch_vars, mcp_vars, hist_vars, api_vars, fn_in>>
    /\ UNCHANGED task_vars
    /\ UNCHANGED invocations

\* RunTerminalCmdTool(max_timeout=fn_in.max_timeout).execute(command,
\* working_dir, timeout) with the command running as fn_in.run says.
Execute ==
    /\ fn_in.fn = "execute"
    /\ ~fn_out.done
    /\ \E o \in execute(fn_in.command, fn_in.working_dir, fn_in.timeout,
                         fn_in.max_timeout, fn_in.run) :
          fn_out' = [done |-> TRUE] @@ o
    /\ UNCHANGED <<orch_vars, mcp_vars, hist_vars, api_vars, fn_in>>
    /\ UNCHANGED task_vars
    /\ UNCHANGED invocations

NextFunctions ==
    \/ ListToolsThenCall
    \/ Execute
    \/ SerializeRequest
    \/ ToolTurn
    \/ Register
    \/ RegistryCallTool
    \/ ValidateArguments
    \/ CallToolResult

SpecFunctions == InitFunctions /\ [][NextFunctions]_vars

\* ------------------------------------ one stdio connection, step by step
\* _send_stdio_request has two suspension points, await process.stdin.drain()
\* and await process.stdout.readline(); the actions below take it one
\* suspension at a time, so that the server and other tasks of the event loop
\* can act in between.  The pipe carries the id of each line.
StdioServer == ConfiguredServer

\* The method of the next request of a task: connect_server sends initialize
\* and, once that is answered with a result, tools/list; every other request
\* is a tools/call.
NextMethod(t, task) ==
    IF t # MainTask THEN "tools/call"
    ELSE IF task.calls = 0 THEN "initialize"
    ELSE IF task.calls = 1 /\ task.got.kind = "response" /\ ~task.got.error
    THEN "tools/list"
    ELSE "tools/call"

\* connect_server has returned or raised in the main task.
ConnectEnded ==
    /\ tasks[MainTask].calls >= 1
    /\ NextMethod(MainTask, tasks[MainTask]) = "tools/call"
    /\ tasks[MainTask].calls <= 2 => tasks[MainTask].pc = "idle"

\* A task that issues its next request without awaiting the one before.
CanIssue_NoAwait(task) == TRUE

\* A task issues a request when the call before has returned or raised: every
\* call is awaited (connect_server 47, _initialize 126-135, the for loop of
\* process_user_request).
CanIssue(task) == task.pc = "idle"

\* _connect_stdio in the main task: the child is spawned and registered.
SpawnStdio ==
    /\ tasks[MainTask].pc = "idle"
    /\ StdioServer \notin DOMAIN servers
    /\ SetClient(_connect_stdio(ClientState, StdioServer, StdioConfig).st)
    /\ UNCHANGED <<orch_vars, hist_vars, api_vars, fn_vars, task_vars>>
    /\ UNCHANGED invocations

\* Up to process.stdin.write: the request takes the next id and its line is
\* written to the child's stdin; the task is suspended in drain.
StdioWrite(t) ==
    /\ StdioServer \in DOMAIN servers
    /\ CanIssue(tasks[t])
    /\ t # MainTask => ConnectEnded
    /\ tasks[t].calls < MaxTaskCalls + (IF t = MainTask THEN 2 ELSE 0)
    /\ LET id == _next_id(ClientState).request_id_counter
       IN /\ request_id_counter' = id
          /\ tasks' = [tasks EXCEPT ![t] =
                          [pc |-> "drain", id |-> id, method |-> NextMethod(t, @),
                           calls |-> @.calls + 1, got |-> NoAnswer]]
          /\ pipe' = IF pipe.eof THEN pipe
                     ELSE [pipe EXCEPT !.stdin = Append(@, id)]
          /\ stdio_log' = [stdio_log EXCEPT !.written = Append(@, id)]
    /\ UNCHANGED <<servers, sent, live, next_handle, exited>>
    /\ UNCHANGED <<orch_vars, hist_vars, api_vars, fn_vars>>
    /\ UNCHANGED invocations

\* StreamReader.readline: a buffered line is returned at once; at end of file
\* it returns b""; with nothing buffered it waits, unless another coroutine
\* is waiting already, which raises RuntimeError.
readline(buffer, eof, waiting) ==
    IF buffer # <<>>
    THEN [kind |-> "line", id |-> Head(buffer).id, error |-> Head(buffer).kind = "error"]
    ELSE IF eof THEN [kind |-> "eof", id |-> 0, error |-> FALSE]
    ELSE IF waiting THEN [kind |-> "busy", id |-> 0, error |-> FALSE]
    ELSE [kind |-> "wait", id |-> 0, error |-> FALSE]

\* Lines 179-188: the line read is decoded and returned; an empty line and
\* any exception raise.
AfterReadline(t, r) ==
    /\ tasks' = [tasks EXCEPT ![t] =
                    IF r.kind = "wait" THEN [@ EXCEPT !.pc = "readline"]
                    ELSE [@ EXCEPT !.pc = "idle",
                                   !.got = IF r.kind = "line"
                                           THEN [kind |-> "response", id |-> r.id,
                                                 error |-> r.error]
                                           ELSE [kind |-> "raised", id |-> 0,
                                                 error |-> FALSE]]]
    /\ pipe' = IF r.kind = "line" THEN [pipe EXCEPT !.stdout = Tail(@)] ELSE pipe
    /\ stdio_log' =
          IF r.kind = "wait" THEN stdio_log
          ELSE [stdio_log EXCEPT
                  !.read = IF r.kind = "line" THEN Append(@, r.id) ELSE @,
                  !.ended = Append(@, [task |-> t, id |-> tasks[t].id,
                                       method |-> tasks[t].method,
                                       got |-> tasks'[t].got])]

\* drain returns and readline is called.
StdioDrain(t) ==
    /\ tasks[t].pc = "drain"
    /\ AfterReadline(t, readline(pipe.stdout, pipe.eof,
                                 \E u \in Tasks \ {t} : tasks[u].pc = "readline"))
    /\ UNCHANGED <<orch_vars, mcp_vars, hist_vars, api_vars, fn_vars>>
    /\ UNCHANGED invocations

\* The task waiting in readline is resumed: a line or the end of file is there.
StdioReadline(t) ==
    /\ tasks[t].pc = "readline"
    /\ pipe.stdout # <<>> \/ pipe.eof
    /\ AfterReadline(t, readline(pipe.stdout, pipe.eof, FALSE))
    /\ UNCHANGED <<orch_vars, mcp_vars, hist_vars, api_vars, fn_vars>>
    /\ UNCHANGED invocations

\* The task is cancelled where it is suspended: CancelledError is not an
\* Exception, so the except clause of line 186 lets it through and the call
\* ends with its request written and its response not read.
StdioCancel(t) ==
    /\ tasks[t].pc \in {"drain", "readline"}
    /\ Cardinality(stdio_log.cancelled) < MaxCancels
    /\ tasks' = [tasks EXCEPT ![t] = [@ EXCEPT !.pc = "idle",
                                               !.got = [kind |-> "cancelled", id |-> 0,
                                                        error |-> FALSE]]]
    /\ stdio_log' = [stdio_log EXCEPT
                        !.cancelled = @ \cup {tasks[t].id},
                        !.ended = Append(@, [task |-> t, id |-> tasks[t].id,
                                             method |-> tasks[t].method,
                                             got |-> tasks'[t].got])]
    /\ UNCHANGED pipe
    /\ UNCHANGED <<orch_vars, mcp_vars, hist_vars, api_vars, fn_vars>>
    /\ UNCHANGED invocations

\* The server reads the next request line and writes the response to it, a
\* result or an error envelope carrying the id of the request.
ServerAnswers ==
    /\ ~pipe.eof
    /\ pipe.stdin # <<>>
    /\ \E kind \in {"result", "error"} :
          pipe' = [pipe EXCEPT !.stdin = Tail(@),
                               !.stdout = Append(@, [id |-> Head(pipe.stdin),
                                                     kind |-> kind])]
    /\ UNCHANGED <<tasks, stdio_log>>
    /\ UNCHANGED <<orch_vars, mcp_vars, hist_vars, api_vars, fn_vars>>
    /\ UNCHANGED invocations

\* The server exits: its stdout is at end of file once the lines written are
\* read, and the requests it has not read are lost.
ServerCloses ==
    /\ StdioServer \in DOMAIN servers
    /\ ~pipe.eof
    /\ pipe' = [pipe EXCEPT !.eof = TRUE, !.stdin = <<>>]
    /\ UNCHANGED <<tasks, stdio_log>>
    /\ UNCHANGED <<orch_vars, mcp_vars, hist_vars, api_vars, fn_vars>>
    /\ UNCHANGED invocations

\* init_agent and one orchestrator: the main task alone, never cancelled.
MainWrite == StdioWrite(MainTask)
MainDrain == StdioDrain(MainTask)
MainReadline == StdioReadline(MainTask)

NextStdio ==
    \/ SpawnStdio
    \/ MainWrite
    \/ MainDrain
    \/ MainReadline
    \/ ServerAnswers
    \/ ServerCloses

SpecStdio == Init /\ [][NextStdio]_vars

\* Two tasks of one event loop on the connection, either of which a caller's
\* timeout may cancel.
TaskWrite == \E t \in Tasks : StdioWrite(t)
TaskDrain == \E t \in Tasks : StdioDrain(t)
TaskReadline == \E t \in Tasks : StdioReadline(t)
TaskCancel == \E t \in Tasks : StdioCancel(t)

NextTasks ==
    \/ SpawnStdio
    \/ TaskWrite
    \/ TaskDrain
    \/ TaskReadline
    \/ TaskCancel
    \/ ServerAnswers
    \/ ServerCloses

SpecTasks == Init /\ [][NextTasks]_vars

\* --------------------- process_user_request called by two tasks at a time
\* Each call has its own iteration, response and tool_results; the store and
\* the catalog are the orchestrator's.  A call is suspended where it awaits:
\* _get_available_tools and the chat-completion call, which follow each
\* other with no change of the store, and each _execute_tool_call.  What
\* lies between two awaits runs without another task in between.

\* The tool calls the model returns to each call, under ids of its own.
InvocationToolCalls(t) ==
    IF t = MainTask
    THEN { ToolCall("call_1", <<"write">>, GoodArgs),
           ToolCall("call_2", <<"write">>, BadArgs) }
    ELSE { ToolCall("call_7", <<"write">>, EmptyArgs),
           ToolCall("call_8", <<"search">>, GoodArgs) }

InvocationToolCallLists(t) ==
    UNION { [1..n -> InvocationToolCalls(t)] : n \in 1..MaxCalls }

\* Lines 64-76 and 123: the while test, then the chat-completion call is
\* awaited or the limit message returned.
EnterLoop(inv) ==
    IF LoopContinues(inv.iteration, max_iterations)
    THEN [inv EXCEPT !.pc = "chat", !.iteration = @ + 1,
                     !.response = NoResponse, !.tool_results = <<>>, !.idx = 0]
    ELSE [inv EXCEPT !.pc = "done", !.returned = LIMIT_MESSAGE,
                     !.response = NoResponse, !.tool_results = <<>>, !.idx = 0]

\* Lines 52-76: system message if the store is empty, user message, up to
\* the first await.
InvocationBegins ==
    /\ pc = "idle"
    /\ \E t \in Tasks, user_message \in UserTexts :
          /\ invocations[t].pc = "none"
          /\ messages' = BeginRequest(messages, user_message)
          /\ invocations' = [invocations EXCEPT ![t] = EnterLoop(@)]
    /\ UNCHANGED <<pc, mcp_client, max_iterations, iteration, response,
                   tool_results, idx, executing, returned>>
    /\ UNCHANGED <<mcp_vars, hist_vars, api_vars, fn_vars, task_vars>>

\* Lines 77-79: the chat-completion call raises.
InvocationChatFails ==
    /\ \E t \in Tasks, e \in ChatErrors :
          /\ invocations[t].pc = "chat"
          /\ messages' = OnChatError(messages, e).messages
          /\ invocations' = [invocations EXCEPT ![t] =
                               [@ EXCEPT !.pc = "done",
                                         !.returned = OnChatError(messages, e).returned]]
    /\ UNCHANGED <<pc, mcp_client, max_iterations, iteration, response,
                   tool_results, idx, executing, returned>>
    /\ UNCHANGED <<mcp_vars, hist_vars, api_vars, fn_vars, task_vars>>

\* Lines 116-120: a response without tool calls.
InvocationChatFinal ==
    /\ \E t \in Tasks, content \in FinalContents :
          /\ invocations[t].pc = "chat"
          /\ messages' = OnFinalResponse(messages, content).messages
          /\ invocations' = [invocations EXCEPT ![t] =
                               [@ EXCEPT !.pc = "done", !.returned = content]]
    /\ UNCHANGED <<pc, mcp_client, max_iterations, iteration, response,
                   tool_results, idx, executing, returned>>
    /\ UNCHANGED <<mcp_vars, hist_vars, api_vars, fn_vars, task_vars>>

\* Lines 82-89: a response with tool calls; the first call is awaited.
InvocationChatToolCalls ==
    /\ \E t \in Tasks :
       \E tool_calls \in InvocationToolCallLists(t) :
          /\ invocations[t].pc = "chat"
          /\ invocations' = [invocations EXCEPT ![t] =
                               [@ EXCEPT !.pc = "exec", !.idx = 1,
                                         !.tool_results = <<>>,
                                         !.response = [content |-> NoneSeq,
                                                       tool_calls |-> tool_calls]]]
    /\ UNCHANGED messages
    /\ UNCHANGED <<pc, mcp_client, max_iterations, iteration, response,
                   tool_results, idx, executing, returned>>
    /\ UNCHANGED <<mcp_vars, hist_vars, api_vars, fn_vars, task_vars>>

\* Lines 89-115: the awaited tool call ends and its entry is appended; after
\* the last one the assistant message and the tool messages are appended and
\* the loop goes on to its next await.
InvocationToolCallEnds ==
    /\ \E t \in Tasks :
          /\ invocations[t].pc = "exec"
          /\ LET inv == invocations[t]
             IN \E o \in RunToolCall(ClientState, inv.response.tool_calls[inv.idx]) :
                   LET results == Append(inv.tool_results, o.result)
                   IN /\ SetClient(o.st)
                      /\ IF inv.idx < Len(inv.response.tool_calls)
                         THEN /\ invocations' =
                                    [invocations EXCEPT ![t] =
                                        [@ EXCEPT !.idx = @ + 1,
                                                  !.tool_results = results]]
                              /\ UNCHANGED messages
                         ELSE /\ messages' = AppendTurn(messages, inv.response, results)
                              /\ invocations' =
                                    [invocations EXCEPT ![t] = EnterLoop(@)]
    /\ UNCHANGED <<pc, mcp_client, max_iterations, iteration, response,
                   tool_results, idx, executing, returned>>
    /\ UNCHANGED <<hist_vars, api_vars, fn_vars, task_vars>>

NextInvocations ==
    \/ InitAgentNoMcp
    \/ InvocationBegins
    \/ InvocationChatFails
    \/ InvocationChatFinal
    \/ InvocationChatToolCalls
    \/ InvocationToolCallEnds

SpecInvocations == Init /\ [][NextInvocations]_vars

\* ------------------------------------------------------------- properties
IsErrorString(text) == Len(text) >= 1 /\ text[1] = "Error: "
IsFailureString(text) ==
    Len(text) >= 1 /\ text[1] = "Error while processing the request: "
InRequest == pc \notin {"init", "idle"}
\* The tool calls the model returned on the turn in progress.
TurnCalls == trace[Len(trace)].tool_calls
CountRole(msgs, role) == Cardinality({i \in 1..Len(msgs) : msgs[i].role = role})

\* What identifies a stored message: its role and the tool-call ids it carries.
Shape(msg) ==
    <<msg.role,
      IF msg.role = "assistant"
      THEN [i \in 1..Len(msg.tool_calls) |-> msg.tool_calls[i].id]
      ELSE IF msg.role = "tool" THEN <<msg.tool_call_id>> ELSE <<>> >>
Shapes(msgs) == [i \in 1..Len(msgs) |-> Shape(msgs[i])]

\* The shapes the turns of a trace must leave in the store: per tool turn one
\* assistant message carrying the calls, then one tool message per call; one
\* plain assistant message for a final response; nothing for a failed call.
RECURSIVE ExpectedShapes(_)
ExpectedShapes(tr) ==
    IF tr = <<>> THEN <<>>
    ELSE LET e == Head(tr)
             here == IF e.kind = "tools"
                     THEN << <<"assistant", [i \in 1..Len(e.tool_calls) |-> e.tool_calls[i].id]>> >>
                          \o [i \in 1..Len(e.tool_calls) |-> <<"tool", <<e.tool_calls[i].id>> >>]
                     ELSE IF e.kind = "final" THEN << <<"assistant", <<>> >> >>
                     ELSE <<>>
         IN here \o ExpectedShapes(Tail(tr))

\* sum over the tool turns of (1 + number of calls)
RECURSIVE TurnMessageCount(_)
TurnMessageCount(tr) ==
    IF tr = <<>> THEN 0
    ELSE (IF Head(tr).kind = "tools" THEN 1 + Len(Head(tr).tool_calls) ELSE 0)
         + TurnMessageCount(Tail(tr))

AllToolTurns(tr) == \A i \in 1..Len(tr) : tr[i].kind = "tools"

\* C1: the step that ends a model turn with N >= 1 tool calls appends, after
\* the assistant message, exactly N tool messages, the i-th carrying the id and
\* the function name of the i-th call, whether the call succeeded or failed;
\* no other step of the turn touches the store.
C1_OneToolMessagePerCall ==
    [][pc = "exec" =>
         LET N == Len(TurnCalls)
             L == Len(messages)
         IN IF pc' \in {"tools", "exec"}
            THEN messages' = messages
            ELSE /\ Len(messages') = L + 1 + N
                 /\ SubSeq(messages', 1, L) = messages
                 /\ messages'[L + 1].role = "assistant"
                 /\ \A i \in 1..N :
                       /\ messages'[L + 1 + i].role = "tool"
                       /\ messages'[L + 1 + i].tool_call_id = TurnCalls[i].id
                       /\ messages'[L + 1 + i].name = TurnCalls[i].function.name]_vars

\* A turn of two calls has ended, the first call failed and the second
\* succeeded, and the store ends with their two tool messages in call order.
C1_Witness ==
    /\ pc = "loop"
    /\ Len(trace) >= 1
    /\ trace[Len(trace)].kind = "tools"
    /\ Len(TurnCalls) = 2
    /\ TurnCalls[1].id # TurnCalls[2].id
    /\ exec_log = <<[i |-> 1, raised |-> TRUE], [i |-> 2, raised |-> FALSE]>>
    /\ messages[Len(messages) - 1].tool_call_id = TurnCalls[1].id
    /\ messages[Len(messages)].tool_call_id = TurnCalls[2].id

\* The steps one invocation still has to take, as a number: it is never
\* negative and every step of the invocation lowers it.
Rank ==
    (max_iterations - iteration) * (2 * MaxCalls + 2)
    + (CASE pc = "chat" -> 2 * MaxCalls + 1
         [] pc = "tools" -> 2 * (Len(response.tool_calls) - idx + 1)
         [] pc = "exec" -> 2 * (Len(response.tool_calls) - idx + 1) - 1
         [] OTHER -> 0)

\* C2: for every max_iterations >= 0 and every behaviour of the model, one
\* invocation makes at most max_iterations chat-completion calls, and each of
\* its steps brings it closer to returning (Rank falls and stays >= 0).
C2_BoundedLoop ==
    /\ [](chat_calls <= max_iterations)
    /\ [](InRequest => Rank >= 0)
    /\ [][InRequest => (pc' = "idle" \/ Rank' < Rank)]_vars

\* An invocation with max_iterations = 2 used both calls and returned.
C2_Witness ==
    /\ pc = "idle"
    /\ max_iterations = 2
    /\ chat_calls = 2
    /\ returned = LIMIT_MESSAGE

\* C3: an invocation whose every model turn returned tool calls returns the
\* limit message after exactly max_iterations chat-completion calls with the
\* messages of all its turns in the store; and the first chat-completion call
\* of the next invocation is sent one record per message the store held at
\* that return, in order, the assistant records carrying their tool calls.
C3_LimitKeepsProgress ==
    [][/\ (InRequest /\ pc' = "idle" /\ AllToolTurns(trace'))
            => /\ returned' = LIMIT_MESSAGE
               /\ chat_calls' = max_iterations
               /\ Len(trace') = max_iterations
               /\ SubSeq(messages', 1, Len(base)) = base
               /\ LET k == IF base = <<>> THEN 2 ELSE 1
                  IN SubSeq(Shapes(messages'), Len(base) + k + 1, Len(messages'))
                        = ExpectedShapes(trace')
               /\ prev' = messages'
       /\ (pc = "loop" /\ pc' = "chat" /\ iteration = 0 /\ returned = LIMIT_MESSAGE)
            => /\ Len(prev) <= Len(messages)
               /\ SubSeq(messages, 1, Len(prev)) = prev
               /\ Len(last_sent'.messages) = Len(messages)
               /\ \A i \in 1..Len(prev) :
                     LET rec == last_sent'.messages[i]
                     IN /\ rec.role = prev[i].role
                        /\ (prev[i].role = "assistant" /\ prev[i].tool_calls # <<>>)
                              => /\ "tool_calls" \in DOMAIN rec
                                 /\ rec.tool_calls = prev[i].tool_calls
                        /\ (prev[i].role = "tool" /\ "content" \in DOMAIN rec)
                              => rec.content = prev[i].content]_vars

\* The second invocation has sent its first chat-completion call after the
\* first one ran into the limit on two tool turns.
C3_Witness ==
    /\ pc = "chat"
    /\ requests = 2
    /\ iteration = 1
    /\ resets = 0
    /\ max_iterations = 2
    /\ returned = LIMIT_MESSAGE
    /\ Len(prev) = 6
    /\ "tool_calls" \in DOMAIN last_sent.messages[3]
    /\ last_sent.messages[6].role = "tool"

\* C4: an invocation that started on an empty store and ends on a response
\* without tool calls returns that response's content and leaves
\* 2 + sum(1 + k_i) + 1 messages: system, user, per tool turn the assistant
\* message with the calls and its k_i tool results, then the final assistant
\* message.
C4_FinalHistory ==
    [][(pc = "chat" /\ pc' = "idle" /\ base = <<>>
          /\ trace'[Len(trace')].kind = "final")
         => /\ returned' = trace'[Len(trace')].content
            /\ Len(messages') = 2 + TurnMessageCount(trace') + 1
            /\ Shapes(messages')
                  = << <<"system", <<>> >>, <<"user", <<>> >> >> \o ExpectedShapes(trace')
            /\ messages'[Len(messages')].content = trace'[Len(trace')].content]_vars

\* One tool turn with one call, then "Done": five messages.
C4_Witness ==
    /\ pc = "idle"
    /\ base = <<>>
    /\ Len(trace) = 2
    /\ trace[1].kind = "tools"
    /\ Len(trace[1].tool_calls) = 1
    /\ trace[2].kind = "final"
    /\ returned = <<"Done">>
    /\ Len(messages) = 5
    /\ messages = prev

\* C5: a failed chat-completion call ends the invocation at once with a
\* failure string: nothing is appended, the store stays as it was (this
\* invocation's user message and the messages of earlier turns included) and
\* no further chat-completion call is made until a new invocation, which
\* appends its user message to that store and enters the loop.
C5_ChatFailure ==
    [][/\ (pc = "chat" /\ Len(trace') = Len(trace) + 1
             /\ trace'[Len(trace')].kind = "failed")
            => /\ pc' = "idle"
               /\ IsFailureString(returned')
               /\ messages' = messages
               /\ chat_calls' = chat_calls
               /\ SubSeq(messages', 1, Len(base)) = base
               /\ LET k == IF base = <<>> THEN 2 ELSE 1
                  IN /\ messages'[Len(base) + k].role = "user"
                     /\ SubSeq(Shapes(messages'), Len(base) + k + 1, Len(messages'))
                           = ExpectedShapes(trace')
       /\ (pc = "idle" /\ chat_calls' # chat_calls) => requests' = requests + 1
       /\ (pc = "idle" /\ requests' = requests + 1 /\ IsFailureString(returned)
             /\ messages # <<>>)
            => /\ Len(messages') = Len(messages) + 1
               /\ SubSeq(messages', 1, Len(messages)) = messages
               /\ messages'[Len(messages')].role = "user"
               /\ pc' = "loop"
               /\ iteration' = 0]_vars

\* The first invocation failed on its second turn, after a tool turn; the
\* second invocation has sent its chat-completion call on the kept store.
C5_Witness ==
    /\ pc = "chat"
    /\ requests = 2
    /\ resets = 0
    /\ IsFailureString(returned)
    /\ Len(prev) = 4
    /\ prev[4].role = "tool"
    /\ Len(messages) = 5
    /\ SubSeq(messages, 1, 4) = prev
    /\ Len(last_sent.messages) = 5

\* C6: a tool call that fails (undecodable arguments, a name no local or
\* remote tool answers to, rejected arguments, a local tool that raises, a
\* remote call that fails) does not end the invocation: the for loop moves to
\* the next call, every call of the turn is executed, in order, the failed
\* ones get a tool message whose content is an error string, and the loop is
\* back at its head, where it issues the next chat-completion call while
\* iteration < max_iterations.
C6_ToolFailureIsolated ==
    [][/\ pc = "exec"
            => LET N == Len(TurnCalls)
                   L == Len(messages)
               IN /\ Len(exec_log') = Len(exec_log) + 1
                  /\ exec_log'[Len(exec_log')].i = idx
                  /\ IF idx < N
                     THEN pc' = "tools" /\ idx' = idx + 1
                     ELSE /\ pc' = "loop"
                          /\ Len(exec_log') = N
                          /\ \A i \in 1..N :
                                /\ exec_log'[i].i = i
                                /\ messages'[L + 1 + i].role = "tool"
                                /\ exec_log'[i].raised
                                      => IsErrorString(messages'[L + 1 + i].content)
       /\ (pc = "loop" /\ iteration < max_iterations) => pc' = "chat"]_vars

\* A turn of two failed calls has ended: a remote call on a connected server,
\* then a call with undecodable arguments; both have their error message and
\* the loop has a further iteration to run.
C6_Witness ==
    /\ pc = "loop"
    /\ iteration < max_iterations
    /\ Len(trace) >= 1
    /\ trace[Len(trace)].kind = "tools"
    /\ Len(TurnCalls) = 2
    /\ TurnCalls[1].function.name = <<"fs", "write">>
    /\ "fs" \in DOMAIN servers
    /\ TurnCalls[2].function.arguments = BadArgs
    /\ exec_log = <<[i |-> 1, raised |-> TRUE], [i |-> 2, raised |-> TRUE]>>
    /\ IsErrorString(messages[Len(messages) - 1].content)
    /\ IsErrorString(messages[Len(messages)].content)

\* C7: at most one tool call is executing at any time; the call executing is
\* the one the for loop stands at, and the calls before it have ended, in the
\* order the model returned them; nothing is executing when a chat-completion
\* call is issued or awaited.
C7_SequentialDispatch ==
    /\ Cardinality(executing) <= 1
    /\ pc # "exec" => executing = {}
    /\ pc = "exec"
          => /\ executing = {idx}
             /\ Len(exec_log) = idx - 1
             /\ \A i \in 1..Len(exec_log) : exec_log[i].i = i

\* The second of two calls to the same http connection is executing, the
\* first has ended.
C7_Witness ==
    /\ pc = "exec"
    /\ idx = 2
    /\ executing = {2}
    /\ "fs" \in DOMAIN servers
    /\ servers["fs"].transport = "http"
    /\ TurnCalls[1].function.name = <<"fs", "write">>
    /\ TurnCalls[2].function.name = <<"fs", "write">>
    /\ exec_log = <<[i |-> 1, raised |-> FALSE]>>

\* C8 as stated: over the whole life of the store, resets included, the
\* system message is appended at most once.
C8_SystemOnceEver == sys_appends.total <= 1

\* C8 amended: between two clears of the store (or from its construction to
\* the first clear) the system message is appended at most once, and the
\* store never holds more than one.
C8_SystemOncePerClear ==
    /\ sys_appends.since_clear <= 1
    /\ CountRole(messages, "system") <= 1

\* Two invocations without a reset in between: one system message.
C8_Witness ==
    /\ pc = "idle"
    /\ requests = 2
    /\ resets = 0
    /\ sys_appends.total = 1
    /\ CountRole(messages, "system") = 1
    /\ CountRole(messages, "user") = 2

\* The ways the claim names in which the transport cannot be established.
TransportFails(config) ==
    LET transport == IF "transport" \in DOMAIN config THEN config.transport ELSE "stdio"
    IN \/ transport \notin {"stdio", "http"}
       \/ transport = "stdio" /\ config.command = "missing-bin"
       \/ transport = "http" /\ "url" \notin DOMAIN config

\* C9: a connect_server that cannot establish its transport raises, leaves the
\* connection set as it was, consumes no request id and sends no request.
C9_TransportFailureRegistersNothing ==
    [][(ops' = ops + 1 /\ last'.op = "connect_server" /\ TransportFails(last'.config))
         => /\ last'.raised
            /\ servers' = servers
            /\ sent' = sent
            /\ request_id_counter' = request_id_counter
            /\ live' = live]_vars

\* With another server connected, an http connect without a URL has failed
\* and its name is not in the connection set.
C9_Witness ==
    /\ last.op = "connect_server"
    /\ last.name = "db"
    /\ last.config = [transport |-> "http"]
    /\ last.raised
    /\ DOMAIN servers = {"fs"}
    /\ Len(sent) = 2

\* C10 as stated: after an initialize answered with an error envelope,
\* connect_server has failed and the name is not in the connection set, so
\* list_tools lists nothing for it and call_tool on it fails as an unknown
\* server, sending nothing.
C10_InitErrorNotRegistered ==
    (last.op = "connect_server" /\ ~TransportFails(last.config)
       /\ last.init_reply = "error")
      => /\ last.raised
         /\ last.name \notin DOMAIN servers
         /\ list_tools(ClientState, last.name) = {}
         /\ \A reply \in ToolsCallReplies :
               LET r == mcp_call_tool(ClientState, <<last.name, "write">>,
                                      ApiArguments, reply)
               IN r.raised /\ r.st = ClientState

\* C11: a connect_server whose transport is established, whose initialize is
\* answered with a result and whose tools/list is answered with an error
\* envelope returns normally; the name is in the connection set with an empty
\* tool list, list_tools lists nothing for it, its transport resource is
\* live, and disconnect_server on it returns, removes the name and releases
\* the resource.
C11_ListErrorDegrades ==
    [][(ops' = ops + 1 /\ last'.op = "connect_server"
          /\ ~TransportFails(last'.config)
          /\ last'.init_reply = "result" /\ last'.list_reply = "error")
         => LET name == last'.name
                d == disconnect_server(ClientState', name)
            IN /\ ~last'.raised
               /\ name \in DOMAIN servers'
               /\ servers'[name].tools = <<>>
               /\ list_tools(ClientState', name) = {}
               /\ servers'[name].handle \in live'
               /\ ~d.raised
               /\ name \notin DOMAIN d.st.servers
               /\ servers'[name].handle \notin d.st.live]_vars

\* "fs" had a tool; it is connected again and this time tools/list is
\* answered with an error envelope: connected, no tool.
C11_Witness ==
    /\ last.op = "connect_server"
    /\ last.name = "fs"
    /\ last.init_reply = "result"
    /\ last.list_reply = "error"
    /\ ~last.raised
    /\ "fs" \in DOMAIN servers
    /\ servers["fs"].tools = <<>>
    /\ Len(sent) = 4
    /\ sent[2].answer = "result"
    /\ sent[4].method = "tools/list"
    /\ sent[4].answer = "error"

\* C12 as stated: every tools/list and tools/call request that was sent went
\* to a connection (a transport resource) on which an initialize request had
\* been sent before and answered with a result.
C12_InitializeFirst ==
    \A j \in 1..Len(sent) :
        sent[j].method \in {"tools/list", "tools/call"}
           => \E i \in 1..(j - 1) :
                 /\ sent[i].handle = sent[j].handle
                 /\ sent[i].method = "initialize"
                 /\ sent[i].answer = "result"

\* C13: the ids of the requests one client sent, in the order it sent them,
\* are strictly increasing integers, whichever connections they went to; the
\* counter is the id of the last one.
C13_IdsIncrease ==
    /\ \A i, j \in 1..Len(sent) : i < j => sent[i].id < sent[j].id
    /\ \A i \in 1..Len(sent) : sent[i].id \in 1..request_id_counter

\* Five requests on two connections: the handshakes of "fs" and "db", then a
\* tools/call to "fs".
C13_Witness ==
    /\ Len(sent) = 5
    /\ sent[2].server = "fs"
    /\ sent[4].server = "db"
    /\ sent[5].server = "fs"
    /\ sent[5].method = "tools/call"
    /\ sent[5].id = 5
    /\ sent[5].handle # sent[4].handle

\* The server behind connection h wrote exactly one line for each request of
\* the log that went to h.
OneLineEach(log, h) ==
    \A i \in 1..Len(log) : log[i].handle = h => Len(log[i].wrote) = 1
\* A request of the log that went to h was answered with a line that is not JSON.
HadBadLine(log, h) ==
    \E i \in 1..Len(log) : log[i].handle = h /\ log[i].answer = "malformed"

\* C14: on a stdio connection whose server writes one line per request,
\* (a) a tools/call answered with a line that is not JSON makes call_tool
\* raise the decode error and leaves the connection registered and its child
\* running; (b) a call on a connection that had such a line reads the very
\* line the server wrote for this call, and returns its result; (c)
\* disconnect_server on such a connection, its child still running, returns,
\* removes the name and releases the child.
C14_BadLineIsolated ==
    [][/\ (Len(sent') = Len(sent) + 1 /\ last'.op = "call_tool")
            => LET e == sent'[Len(sent')]
                   h == e.handle
               IN (e.transport = "stdio" /\ OneLineEach(sent', h))
                     => /\ e.wrote[1].kind = "malformed"
                              => /\ last'.raised
                                 /\ last'.error = <<"JSONDecodeError: Expecting value">>
                                 /\ e.server \in DOMAIN servers'
                                 /\ servers'[e.server].handle = h
                                 /\ h \in live'
                        /\ HadBadLine(sent, h)
                              => /\ e.answer = e.wrote[1].kind
                                 /\ e.answer_id = e.wrote[1].id
                                 /\ e.answer = "result"
                                       => /\ ~last'.raised
                                          /\ last'.value
                                                = FormatResult([content |-> TextContent])
       /\ (ops' = ops + 1 /\ last'.op = "disconnect_server"
              /\ last'.name \in DOMAIN servers
              /\ HadBadLine(sent, servers[last'.name].handle)
              /\ servers[last'.name].handle \notin exited)
            => /\ ~last'.raised
               /\ last'.name \notin DOMAIN servers'
               /\ servers[last'.name].handle \notin live']_vars

\* "fs" on stdio answered a tools/call with a line that is not JSON, the next
\* tools/call with its response, and has been disconnected.
C14_Witness ==
    /\ last.op = "disconnect_server"
    /\ last.name = "fs"
    /\ ~last.raised
    /\ "fs" \notin DOMAIN servers
    /\ \E i, j \in 1..Len(sent) :
          /\ i < j
          /\ sent[i].handle = sent[j].handle
          /\ sent[i].handle \notin live
          /\ OneLineEach(sent, sent[i].handle)
          /\ sent[i].transport = "stdio"
          /\ sent[i].server = "fs"
          /\ sent[i].method = "tools/call"
          /\ sent[i].answer = "malformed"
          /\ sent[j].method = "tools/call"
          /\ sent[j].answer = "result"
          /\ sent[j].answer_id = sent[j].id

\* C15 as stated: when call_tool has returned a value, the response it took
\* the value from carried the id of the tools/call request it sent.
C15_ResultOfOwnRequest ==
    (last.op = "call_tool" /\ ~last.raised)
       => /\ sent[Len(sent)].method = "tools/call"
          /\ sent[Len(sent)].answer_id = sent[Len(sent)].id

\* C16: disconnect_server on a name that is not in the connection set
\* returns without raising and changes nothing of the client: no resource is
\* released, no request sent, the connection set is as it was; and on any
\* name, a second disconnect_server right after the first leaves the client
\* as the first left it, raising only if the first did.
C16_DisconnectIdempotent ==
    [][(ops' = ops + 1 /\ last'.op = "disconnect_server")
         => /\ last'.name \notin DOMAIN servers
                  => /\ ~last'.raised
                     /\ UNCHANGED mcp_vars
            /\ LET second == disconnect_server(ClientState', last'.name)
               IN /\ second.st = ClientState'
                  /\ second.raised => last'.raised]_vars

\* "fs" was connected and disconnected, and disconnect_server("fs") has been
\* called once more.
C16_Witness ==
    /\ last.op = "disconnect_server"
    /\ last.name = "fs"
    /\ ~last.registered
    /\ ~last.raised
    /\ \E i \in 1..Len(sent) : sent[i].server = "fs"
    /\ "fs" \notin DOMAIN servers
    /\ live = {}

\* The connections whose disconnect_server raises: stdio, child already gone.
CannotDisconnect == {n \in DOMAIN servers :
                        servers[n].transport = "stdio" /\ servers[n].handle \in exited}

\* C17: disconnect_all calls disconnect_server on every name that was in the
\* connection set when it was called and returns without raising; the names
\* whose disconnect raised stay, every other name is removed and its
\* resource released.
C17_DisconnectAllIsolates ==
    [][(ops' = ops + 1 /\ last'.op = "disconnect_all")
         => /\ ~last'.raised
            /\ last'.attempted = DOMAIN servers
            /\ last'.failed = CannotDisconnect
            /\ DOMAIN servers' = CannotDisconnect
            /\ \A n \in DOMAIN servers \ CannotDisconnect :
                  servers[n].handle \notin live']_vars

\* Two connections, the child of one had exited: that disconnect raised, the
\* other connection was disconnected all the same.
C17_Witness ==
    /\ last.op = "disconnect_all"
    /\ last.registered = {"fs", "db"}
    /\ last.attempted = {"fs", "db"}
    /\ Cardinality(last.failed) = 1
    /\ ~last.raised
    /\ DOMAIN servers = last.failed
    /\ Cardinality(live) = 1

\* C18 as stated: every transport resource that was created and not released
\* is the resource of exactly one entry of the connection set.
C18_OneOwnerPerResource ==
    \A h \in live :
        Cardinality({n \in DOMAIN servers : servers[n].handle = h}) = 1

\* The two halves of the catalog _get_available_tools merges.
LocalNames == { tools[n].name : n \in DOMAIN tools }
RemoteNames ==
    IF mcp_client
    THEN { t.function.name : t \in list_tools(ClientState, NoneStr) }
    ELSE {}

\* C19: the merged catalog lists every local tool under its own name and
\* every tool t discovered on a connected server s under "s.t"; a remote
\* name always has a dot, so a local name without a dot is the name of no
\* remote entry.
C19_NoNameCollision ==
    /\ _get_available_tools = LocalNames \cup RemoteNames
    /\ mcp_client =>
          RemoteNames = UNION { { <<s>> \o servers[s].tools[i].name :
                                    i \in DOMAIN servers[s].tools } :
                                s \in DOMAIN servers }
    /\ \A r \in RemoteNames : Len(r) >= 2
    /\ \A l \in LocalNames : Len(l) = 1 => l \notin RemoteNames
    /\ pc = "chat" => last_sent.tools = _get_available_tools

\* A chat-completion call was sent the catalog of local "write" and of
\* "write" discovered on "fs".
C19_Witness ==
    /\ pc = "chat"
    /\ mcp_client
    /\ "fs" \in DOMAIN servers
    /\ servers["fs"].tools = <<RemoteWrite>>
    /\ last_sent.tools = {<<"write">>, <<"fs", "write">>}

\* C20: call_tool with a name that has no dot, or whose part before the
\* first dot is not in the connection set, raises and leaves the client as it
\* was: nothing sent, the id counter not advanced, the connection set and
\* its resources unchanged.
C20_UnknownServerSendsNothing ==
    [][(ops' = ops + 1 /\ last'.op = "call_tool"
          /\ (Len(last'.name) < 2 \/ Head(last'.name) \notin DOMAIN servers))
         => /\ last'.raised
            /\ UNCHANGED mcp_vars]_vars

\* With "fs" connected, call_tool("db.write") has failed: two requests sent,
\* both of the handshake of "fs".
C20_Witness ==
    /\ last.op = "call_tool"
    /\ last.name = <<"db", "write">>
    /\ last.raised
    /\ last.error = <<"Server ", "db", " is not connected">>
    /\ DOMAIN servers = {"fs"}
    /\ Len(sent) = 2
    /\ request_id_counter = 2

\* The last request sent on the connection now registered under name.
LastOn(log, h) ==
    LET on == SelectSeq(log, LAMBDA q : q.handle = h)
    IN IF on = <<>> THEN [method |-> "none", answer |-> "none"] ELSE on[Len(on)]

\* C21: when the server answers a tools/call request with an error envelope,
\* call_tool raises an error that carries the remote message and returns no
\* value, the connection set (entries, their tools, their resources) is as
\* it was, and a later call on that connection that the server answers with
\* a result returns that result.
C21_ErrorEnvelopeFailsCallOnly ==
    [][(ops' = ops + 1 /\ last'.op = "call_tool"
          /\ Len(last'.name) >= 2 /\ Head(last'.name) \in DOMAIN servers)
         => /\ last'.reply = "error"
               => /\ last'.raised
                  /\ last'.value = NoValue
                  /\ last'.error = <<"Tool call error: ", "remote tool failed">>
                  /\ servers' = servers
                  /\ live' = live
                  /\ Len(sent') = Len(sent) + 1
            /\ (last'.reply = "result"
                 /\ LastOn(sent, servers[Head(last'.name)].handle).method = "tools/call"
                 /\ LastOn(sent, servers[Head(last'.name)].handle).answer = "error")
               => /\ ~last'.raised
                  /\ last'.value = DictVal([success |-> BoolVal(TRUE)])]_vars

\* "fs" connected with its tool discovered, one call answered with an error
\* envelope, the next answered with a result and returned.
C21_Witness ==
    /\ last.op = "call_tool"
    /\ last.name = <<"fs", "write">>
    /\ last.reply = "result"
    /\ ~last.raised
    /\ Len(sent) = 4
    /\ sent[3].method = "tools/call" /\ sent[3].answer = "error"
    /\ sent[4].method = "tools/call" /\ sent[4].answer = "result"
    /\ sent[3].handle = sent[4].handle
    /\ "fs" \in DOMAIN servers
    /\ servers["fs"].tools = <<RemoteWrite>>

\* C22: on an http connection, a call whose request was answered with a
\* status outside 200..299 fails.
C22_Non2xxFails ==
    (last.op = "call_tool" /\ "status" \in DOMAIN last
       /\ last.status # 0 /\ last.status \notin 200..299)
      => last.raised

\* C23: a request on an http connection that ends in an error status, a
\* timeout or a network error makes that call_tool raise and changes nothing
\* else: every entry of the connection set (session, URL, tools), every
\* resource and every pipe is as before; and a call on a connection whose
\* last request failed that way returns the result the server then sends.
C23_HttpFailureFailsCallOnly ==
    [][(ops' = ops + 1 /\ last'.op = "call_tool"
          /\ Head(last'.name) \in DOMAIN servers
          /\ servers[Head(last'.name)].transport = "http")
         => /\ (last'.reply = "failure" \/ last'.status >= 400)
               => /\ last'.raised
                  /\ servers' = servers
                  /\ live' = live
                  /\ Len(sent') = Len(sent) + 1
            /\ (last'.reply = "result" /\ last'.status = 200
                 /\ LastOn(sent, servers[Head(last'.name)].handle).method = "tools/call"
                 /\ LastOn(sent, servers[Head(last'.name)].handle).answer = "none")
               => /\ ~last'.raised
                  /\ last'.value = DictVal([success |-> BoolVal(TRUE)])
                  /\ servers' = servers]_vars

\* Two connections, "fs" over http; a call on "fs" answered 404 has failed
\* and the next call on "fs" has returned its result.
C23_Witness ==
    /\ last.op = "call_tool"
    /\ last.name = <<"fs", "write">>
    /\ last.status = 200
    /\ ~last.raised
    /\ DOMAIN servers = {"fs", "db"}
    /\ servers["fs"].transport = "http"
    /\ servers["fs"].tools = <<RemoteWrite>>
    /\ Len(sent) = 6
    /\ sent[5].server = "fs" /\ sent[5].answer = "none"
    /\ sent[6].server = "fs" /\ sent[6].answer = "result"
    /\ sent[5].handle = sent[6].handle

\* C24: the text serialize_request returns is one line, its only newline
\* being its last character, and json.loads of it gives a dict whose id,
\* method and params are those of the request (no params when the request has
\* none).
C24_SerializeRoundTrip ==
    (fn_in.fn = "serialize_request" /\ fn_out.done)
      => LET text == fn_out.text
             request == fn_in.request
             parsed == Loads(text)
         IN /\ Len(text) >= 2
            /\ text[Len(text)] = "\n"
            /\ \A i \in 1..(Len(text) - 1) : text[i] # "\n"
            /\ parsed.ok
            /\ parsed.value.t = "dict"
            /\ parsed.value.v["id"] = request.id
            /\ parsed.value.v["method"] = request.method
            /\ IF request.params = NoValue
               THEN "params" \notin DOMAIN parsed.value.v
               ELSE /\ "params" \in DOMAIN parsed.value.v
                    /\ parsed.value.v["params"] = request.params

\* A request with a string id, a newline in its method name and nested
\* params holding a None and a newline has been serialized.
C24_Witness ==
    /\ fn_in.fn = "serialize_request"
    /\ fn_out.done
    /\ fn_in.request.id = StrVal(<<"7">>)
    /\ fn_in.request.method = StrVal(<<"a", "\n", "b">>)
    /\ fn_in.request.params.t = "dict"
    /\ "cursor" \in DOMAIN fn_in.request.params.v
    /\ Len(fn_out.text) > 20

\* What the statement of C25 asks call_tool to return for a result: the
\* content list when it has no text entry; otherwise the value json.loads gives
\* for the newline-joined texts (whitespace around a JSON text does not matter
\* to json.loads), or the joined text itself when it is not JSON.
ContentOf(result) == IF "content" \in DOMAIN result THEN result.content ELSE <<>>
TextsOf(content) ==
    LET items == SelectSeq(content, LAMBDA item : item.type = "text")
    IN [i \in 1..Len(items) |->
          IF "text" \in DOMAIN items[i] THEN items[i].text ELSE <<"">>]
ParsedText(text) ==
    IF Len(Strip(text)) = 1 THEN JsonLoads(Strip(text)[1])
    ELSE [ok |-> FALSE, value |-> NoValue]
StatedReturn(result) ==
    LET content == ContentOf(result)
        joined == JoinTexts(TextsOf(content))
    IN IF TextsOf(content) = <<>> THEN ListVal(content)
       ELSE IF ParsedText(joined).ok THEN ParsedText(joined).value
       ELSE StrVal(joined)

\* C25: call_tool returns, for every successful response, the parsed joined
\* text, the joined text, or the content list, as stated.
C25_ReturnsAsStated ==
    (fn_in.fn = "call_tool" /\ fn_out.done)
      => /\ ~fn_out.raised
         /\ fn_out.value = StatedReturn(fn_in.result)

\* A value is of a JSON type: true and false are booleans and nothing else.
OfJsonType(value, type) ==
    CASE type = "string" -> value.t = "str"
      [] type = "integer" -> value.t = "int"
      [] type = "number" -> value.t \in {"int", "float"}
      [] type = "boolean" -> value.t = "bool"
      [] type = "array" -> value.t = "list"
      [] type = "object" -> value.t = "dict"

\* C26: validate_arguments returns False exactly when a required parameter is
\* absent or a supplied parameter that the schema declares holds a value that
\* is not of the declared JSON type.
C26_RejectsExactlyBadArguments ==
    (fn_in.fn = "validate_arguments" /\ fn_out.done)
      => LET schema == fn_in.schema
             supplied == fn_in.arguments.v
         IN ~fn_out.value
              <=> \/ \E param \in schema.required : param \notin DOMAIN supplied
                  \/ \E param \in DOMAIN supplied \cap DOMAIN schema.properties :
                        ~OfJsonType(supplied[param], schema.properties[param])

\* C27: ToolRegistry.call_tool with an unknown name or with arguments that
\* validation rejects raises and execute has not run; with accepted arguments
\* execute has run once and call_tool ends as execute ended: it returns what
\* execute returned or raises what execute raised.
C27_ExecuteOnlyAfterValidation ==
    (fn_in.fn = "registry_call_tool" /\ fn_out.done)
      => IF ~get_tool(fn_in.name)
            \/ ~validate_arguments(tools[fn_in.name[1]].parameters_schema, fn_in.arguments)
         THEN fn_out.raised /\ fn_out.executed = 0 /\ fn_out.value = NoValue
         ELSE /\ fn_out.executed = 1
              /\ [raised |-> fn_out.raised, value |-> fn_out.value,
                  error |-> fn_out.error] \in LocalExecOutcomes

\* call_tool("write", ...) with accepted arguments has raised what execute
\* raised.
C27_Witness ==
    /\ fn_in.fn = "registry_call_tool"
    /\ fn_out.done
    /\ fn_in.name = <<"write">>
    /\ fn_in.arguments = ApiArguments
    /\ fn_out.raised
    /\ fn_out.error = <<"Permission denied">>
    /\ fn_out.executed = 1

\* C28: register(tool) does not fail; afterwards get_tool(tool.name) is that
\* tool, every entry under another name is as it was, and the names of the
\* catalog are those it had and tool.name, so that registering under a name
\* already taken leaves the number of entries unchanged.
C28_RegisterLastWriteWins ==
    (fn_in.fn = "register" /\ fn_out.done)
      => LET before == fn_in.registry
             after == fn_out.tools
             name == fn_in.tool.name[1]
         IN /\ ~fn_out.raised
            /\ GetTool(after, fn_in.tool.name) = fn_in.tool
            /\ DOMAIN after = DOMAIN before \cup {name}
            /\ \A other \in DOMAIN before \ {name} : after[other] = before[other]
            /\ name \in DOMAIN before
                 => Cardinality(DOMAIN after) = Cardinality(DOMAIN before)

\* A second tool has been registered under "write" in a catalog that held
\* another "write" and a "read".
C28_Witness ==
    /\ fn_in.fn = "register"
    /\ fn_out.done
    /\ DOMAIN fn_in.registry = {"write", "read"}
    /\ fn_in.tool.name = <<"write">>
    /\ fn_in.registry["write"] # fn_in.tool
    /\ fn_out.tools["write"] = fn_in.tool
    /\ fn_out.tools["read"] = fn_in.registry["read"]

\* The record at position i of a projection is the record of message i of the
\* store: same role, and each optional field it carries is the message's.
RecordOf(record, msg) ==
    /\ record["role"] = msg.role
    /\ "content" \in DOMAIN record => record["content"] = msg.content
    /\ "tool_call_id" \in DOMAIN record => record["tool_call_id"] = msg.tool_call_id
    /\ "name" \in DOMAIN record => record["name"] = msg.name
    /\ "tool_calls" \in DOMAIN record => record["tool_calls"] = msg.tool_calls

RoleOf(op) ==
    CASE op = "add_user_message" -> "user"
      [] op = "add_assistant_message" -> "assistant"
      [] op = "add_tool_message" -> "tool"

\* C29: add_user_message, add_assistant_message and add_tool_message each add
\* one message of their role at the end of the store and leave the messages
\* before it as they were; get_messages returns one record per stored
\* message, record i being that of message i, and leaves the store alone.
C29_AppendOnlyInOrder ==
    [][(ops' = ops + 1)
         => /\ last'.op \in {"add_user_message", "add_assistant_message", "add_tool_message"}
               => /\ Len(messages') = Len(messages) + 1
                  /\ SubSeq(messages', 1, Len(messages)) = messages
                  /\ messages'[Len(messages')].role = RoleOf(last'.op)
            /\ last'.op = "get_messages"
               => /\ Len(last'.value) = Len(messages)
                  /\ \A i \in 1..Len(messages) : RecordOf(last'.value[i], messages[i])
                  /\ messages' = messages]_vars

\* A store of an assistant message with a tool call and then a tool message,
\* and get_messages on it.
C29_Witness ==
    /\ last.op = "get_messages"
    /\ Len(messages) = 2
    /\ messages[1].role = "assistant"
    /\ messages[1].tool_calls # NoneSeq
    /\ messages[2].role = "tool"
    /\ Len(last.value) = 2
    /\ last.value[1]["role"] = "assistant"
    /\ last.value[2]["role"] = "tool"

\* C30: every record of role tool in the projection given to the model
\* carries a tool_call_id and a name.
C30_ToolRecordsCarryIdAndName ==
    (fn_in.fn = "tool_turn" /\ fn_out.done)
      => \A i \in DOMAIN fn_out.messages :
            fn_out.messages[i]["role"] = "tool"
              => /\ "tool_call_id" \in DOMAIN fn_out.messages[i]
                 /\ "name" \in DOMAIN fn_out.messages[i]

\* The target the name of a tool call selects.
ExpectedTarget(tool_call) ==
    IF tool_call.function.name \in LocalNames THEN "local"
    ELSE IF mcp_client /\ Len(tool_call.function.name) > 1 THEN "remote"
    ELSE "none"

\* C31: a tool call whose arguments decode is handed to one target chosen
\* from its name: the local catalog if it has the name, else the MCP client if
\* there is one and the name has a dot, else nothing runs and the result
\* entry is the tool-not-found error.  No call runs a local tool and sends a
\* request, none runs a local tool twice or sends two requests, and a call
\* whose arguments do not decode runs nothing.
C31_OneTargetPerCall ==
    [][ (pc = "exec" /\ exec_log' # exec_log) =>
          LET tool_call == response.tool_calls[idx]
              decoded == JsonLoads(tool_call.function.arguments).ok
              posted == Len(sent') - Len(sent)
              entry == tool_results'[Len(tool_results')]
              outs == { r \in _execute_tool_call(ClientState, tool_call) :
                          /\ r.st = ClientState'
                          /\ entry = IF r.raised THEN error_result(tool_call, r.error)
                                     ELSE r.value }
          IN /\ outs # {}
             /\ \A r \in outs :
                   /\ decoded => r.target = ExpectedTarget(tool_call)
                   /\ ~decoded => r.target = "none" /\ r.raised
                   /\ r.executed + posted <= 1
                   /\ r.target = "local" => posted = 0
                   /\ r.target = "remote" =>
                         /\ r.executed = 0
                         /\ posted = 1 =>
                               LET q == sent'[Len(sent')]
                               IN /\ q.method = "tools/call"
                                  /\ q.server = Head(tool_call.function.name)
                   /\ r.target = "none" =>
                         /\ r.executed = 0
                         /\ posted = 0
                         /\ r.raised
                         /\ decoded =>
                               entry.result =
                                  StrVal(<<"Error: ", "Tool not found: ">>
                                         \o tool_call.function.name) ]_vars

\* One turn ran the local "write" and then sent "fs.write" to the connected
\* server "fs": one local run with nothing sent, then one request.
C31_Witness ==
    /\ pc = "loop"
    /\ Len(response.tool_calls) = 2
    /\ response.tool_calls[1].function.name = <<"write">>
    /\ response.tool_calls[2].function.name = <<"fs", "write">>
    /\ tool_results[1].result = StrVal(<<"written">>)
    /\ Len(sent) > 0
    /\ sent[Len(sent)].method = "tools/call"
    /\ Cardinality({i \in DOMAIN sent : sent[i].method = "tools/call"}) = 1
    /\ exec_log = <<[i |-> 1, raised |-> FALSE], [i |-> 2, raised |-> FALSE]>>

\* The requests written to the pipe whose response line has not been read and
\* is still to be read: the request is unread by the server, or its response
\* line is in the pipe, or the call that wrote it is still suspended.
InFlight ==
    { i \in DOMAIN stdio_log.written :
        LET id == stdio_log.written[i]
        IN /\ \A j \in DOMAIN stdio_log.read : stdio_log.read[j] # id
           /\ \/ \E j \in DOMAIN pipe.stdin : pipe.stdin[j] = id
              \/ \E j \in DOMAIN pipe.stdout : pipe.stdout[j].id = id
              \/ \E t \in Tasks : tasks[t].pc # "idle" /\ tasks[t].id = id }

\* C32: with connect_server and one orchestrator as the only issuers, each
\* request awaited before the next, the stdio connection never has two
\* requests written whose response lines are unread.
C32_OneInFlight ==
    /\ Cardinality(InFlight) <= 1
    /\ Len(pipe.stdin) + Len(pipe.stdout) <= 1

\* connect_server's two requests and one tools/call were each written and
\* answered, and a second tools/call is written and waits for its line.
C32_Witness ==
    /\ stdio_log.read = <<1, 2, 3>>
    /\ stdio_log.written = <<1, 2, 3, 4>>
    /\ tasks[MainTask].method = "tools/call"
    /\ tasks[MainTask].pc = "readline"
    /\ Cardinality(InFlight) = 1

\* C33: execute waits for the command no longer than min(timeout,
\* max_timeout); a command still running when that limit expires is killed
\* and awaited, and execute returns the result with timeout = true and
\* returncode = -1 without raising; a command that ends before the limit is
\* not killed and its result has timeout = false.
C33_TimeoutKillsAndReturns ==
    (fn_in.fn = "execute" /\ fn_out.done /\ fn_in.run.spawned
       /\ fn_in.working_dir # "missing" /\ fn_in.command # "rm -rf /") =>
        LET limit == IF fn_in.timeout <= fn_in.max_timeout
                     THEN fn_in.timeout ELSE fn_in.max_timeout
        IN /\ fn_out.waited <= limit
           /\ ~fn_out.raised
           /\ ~fn_out.running
           /\ fn_in.run.duration > limit =>
                 /\ fn_out.killed
                 /\ fn_out.result.timeout
                 /\ fn_out.result.returncode = -1
           /\ fn_in.run.duration < limit =>
                 /\ ~fn_out.killed
                 /\ ~fn_out.result.timeout
                 /\ fn_out.result.returncode = fn_in.run.returncode
           /\ fn_out.result.timeout <=> fn_out.killed

\* A command that runs 301 s was asked for with timeout 60 under max_timeout
\* 2: it was killed after 2 s and the timeout result returned.
C33_Witness ==
    /\ fn_in.fn = "execute"
    /\ fn_out.done
    /\ fn_in.timeout = DefaultTimeout
    /\ fn_in.max_timeout = 2
    /\ fn_in.run.spawned
    /\ fn_in.run.duration = 301
    /\ fn_out.waited = 2
    /\ fn_out.killed
    /\ fn_out.result.timeout
    /\ fn_out.result.returncode = -1
    /\ ~fn_out.raised

\* C34: whatever process_user_request and reset_conversation calls were
\* made, a message store that is not empty begins with a system message and
\* holds no other system message.
C34_SystemFirstOnly ==
    messages # <<>> =>
        /\ messages[1].role = "system"
        /\ messages[1].content = SYSTEM_PROMPT
        /\ \A i \in 2..Len(messages) : messages[i].role # "system"

\* A request, a reset and a second request that has returned: the store
\* built after the reset begins with the system message.
C34_Witness ==
    /\ pc = "idle"
    /\ requests = 2
    /\ resets = 1
    /\ sys_appends.total = 2
    /\ Len(messages) >= 3
    /\ messages[1].role = "system"
    /\ messages[2].role = "user"

\* C35: call_tool with a name that list_tools returned sends one tools/call
\* request to the server the tool was discovered on, with params.name the
\* tool's remote name, whatever dots the server name and the remote name hold.
C35_ListedNameRoutesBack ==
    (fn_in.fn = "list_tools" /\ fn_out.done) =>
        /\ ~fn_out.raised
        /\ Len(fn_out.posted) = 1
        /\ fn_out.posted[1].method = "tools/call"
        /\ fn_out.posted[1].server = fn_out.server
        /\ fn_out.posted[1].tool = fn_out.remote

\* C36: when disconnect_all has returned the connection set is empty, also
\* when disconnecting one of the connections raised.
C36_DisconnectAllEmpties ==
    last.op = "disconnect_all" =>
        /\ ~last.raised
        /\ DOMAIN servers = {}

\* The calls that have ended: each returned the response that carries the id
\* of its own request.
OwnResponses ==
    \A i \in DOMAIN stdio_log.ended :
        LET call == stdio_log.ended[i]
        IN call.got.kind # "cancelled" =>
              /\ call.got.kind = "response"
              /\ call.got.id = call.id

\* C37: two tasks call call_tool on one stdio connection at the same time,
\* no call is cancelled and the server answers every request: whatever the
\* order of their writes and reads, each call returns the response whose id
\* is the id of its request.
C37_ConcurrentCallsGetOwnResponse ==
    (stdio_log.cancelled = {} /\ ~pipe.eof) => OwnResponses

\* C38: one task uses the connection and the server answers every request;
\* a call_tool is cancelled between the write of its request and the read of
\* its response: the calls after it return the response to their own request.
C38_CallAfterCancelGetsOwnResponse ==
    (/\ tasks[2].calls = 0
     /\ ~pipe.eof
     /\ \A i \in DOMAIN stdio_log.ended :
           stdio_log.ended[i].got.kind = "cancelled"
              => stdio_log.ended[i].method = "tools/call") => OwnResponses

\* The messages of one call of process_user_request carry the ids of its own
\* tool calls.
OwnerOf(id) ==
    IF \E c \in InvocationToolCalls(MainTask) : c.id = id THEN MainTask ELSE 2

\* C39: two process_user_request calls run on one orchestrator at a time:
\* in the store every assistant message with k tool calls is followed at
\* once by the k tool messages of those calls, in call order, and the
\* message after them is no tool message.
C39_TurnsStayContiguous ==
    \A i \in DOMAIN messages :
        (messages[i].role = "assistant" /\ messages[i].tool_calls # NoneSeq) =>
            LET calls == messages[i].tool_calls
                k == Len(calls)
            IN /\ i + k <= Len(messages)
               /\ \A j \in 1..k :
                     /\ messages[i + j].role = "tool"
                     /\ messages[i + j].tool_call_id = calls[j].id
                     /\ messages[i + j].name = calls[j].function.name
                     /\ OwnerOf(messages[i + j].tool_call_id) = OwnerOf(calls[1].id)
               /\ i + k < Len(messages) => messages[i + k + 1].role # "tool"

\* Both calls were suspended in their tool calls at the same time, and the
\* store holds the two calls of one turn and the call of the other.
C39_Witness ==
    /\ invocations[1].pc = "done"
    /\ invocations[2].pc = "exec"
    /\ \E i \in DOMAIN messages :
          /\ messages[i].role = "assistant"
          /\ messages[i].tool_calls # NoneSeq
          /\ Len(messages[i].tool_calls) = 2
          /\ OwnerOf(messages[i].tool_calls[1].id) = MainTask
    /\ \E i \in DOMAIN messages :
          /\ messages[i].role = "assistant"
          /\ messages[i].tool_calls # NoneSeq
          /\ OwnerOf(messages[i].tool_calls[1].id) = 2
    /\ \E i \in DOMAIN messages :
          /\ messages[i].role = "user"
          /\ i > 2
          /\ i < Len(messages)
====
